---------------------------- MODULE Spec2Model ----------------------------
(***************************************************************************)
(* A model of KaHyPar's k-way gain priority queue (KWayPriorityQueue), of  *)
(* the two-way flow refiner (TwoWayFlowRefiner / MaximumFlow), of the      *)
(* maximum flow algorithms EdmondKarp and GoldbergTarjan, of the flow      *)
(* execution policies, of the random choices of a run, of the two-way FM   *)
(* refiner, of the command line driver with a time limit, of the           *)
(* evolutionary partitioner and of the flow hypergraph extractor.          *)
(***************************************************************************)
EXTENDS Integers, Sequences, FiniteSets, TLC

VARIABLES pq, ret, hg, best_metrics, refiner, context, observed, solver, policy,
          runs, fm, driver, evo, extractor

\* the variables of the priority queue, of the flow refiner, of the maximum
\* flow algorithms, of the flow execution policies and of the random choices
pq_vars == <<pq, ret>>
flow_vars == <<hg, best_metrics, refiner, context, observed>>
solver_vars == <<solver>>
policy_vars == <<policy>>
random_vars == <<runs>>
\* the variables of the two-way FM refiner, of the driver, of the evolutionary
\* partitioner and of the flow hypergraph extractor
fm_vars == <<fm>>
driver_vars == <<driver>>
evo_vars == <<evo>>
extractor_vars == <<extractor>>
library_vars == <<pq_vars, flow_vars, solver_vars, policy_vars, random_vars>>
vars == <<pq, ret, hg, best_metrics, refiner, context, observed, solver, policy,
          runs, fm, driver, evo, extractor>>

\* what an operation of the one leaves alone
later_vars == <<fm_vars, driver_vars, evo_vars, extractor_vars>>
pq_others == <<flow_vars, solver_vars, policy_vars, random_vars, later_vars>>
flow_others == <<pq_vars, solver_vars, policy_vars, random_vars, later_vars>>
solver_others == <<pq_vars, policy_vars, random_vars, later_vars>>
policy_others == <<pq_vars, flow_vars, solver_vars, random_vars, later_vars>>
random_others == <<pq_vars, flow_vars, solver_vars, policy_vars, later_vars>>
fm_others == <<library_vars, driver_vars, evo_vars, extractor_vars>>
driver_others == <<library_vars, fm_vars, evo_vars, extractor_vars>>
evo_others == <<library_vars, fm_vars, driver_vars, extractor_vars>>
extractor_others == <<library_vars, fm_vars, driver_vars, evo_vars>>

(***************************************************************************)
(* Bounds of the model.                                                    *)
(***************************************************************************)
\* k: the number of blocks, hence of sub-queues (the constructor's argument)
K == 2
\* keys (gains) range over 1..MaxKey
MaxKey == 2
\* the queue is never filled beyond this many entries
MaxEntries == 2

(***************************************************************************)
(* Program constants.                                                      *)
(***************************************************************************)
\* MetaKey::min(): the start value of the scans in maxIndex.  Every key of
\* the model is larger, as every gain is larger than the smallest integer.
MetaKeyMin == 0
\* std::numeric_limits<size_t>::max(); the model's largest integer stands
\* for it
kInvalidIndex == 2147483647
\* std::numeric_limits<PartitionID>::max()
kInvalidPart == 2147483647

Parts == 0 .. (K - 1)
\* the vertex ids entries carry: two, so that one sub-queue can hold several
Ids == {0, 1}
Keys == (MetaKeyMin + 1) .. MaxKey

(***************************************************************************)
(* BinaryMaxHeap<IDType, KeyType>: one sub-queue.  A heap is modelled by   *)
(* its entries: heap[id] is the sequence of the keys pushed under id and   *)
(* not yet taken out again; the handle of id points to the last of them.   *)
(* The array layout is not modelled: the root is any entry of largest key. *)
(***************************************************************************)
EmptyHeap == [id \in Ids |-> <<>>]

\* the entries of h, each named by its id and its place under that id
heapEntries(h) == UNION {{<<id, i>> : i \in 1 .. Len(h[id])} : id \in Ids}

heapSize(h) == Cardinality(heapEntries(h))

heapEmpty(h) == \A id \in Ids : h[id] = <<>>

heapContains(h, id) == h[id] # <<>>

heapPush(h, id, key) == [h EXCEPT ![id] = Append(@, key)]

heapKeyOf(h, e) == h[e[1]][e[2]]

\* topKey(): the key of the root, the largest key in the heap
heapTopKey(h) ==
    LET keys == {heapKeyOf(h, e) : e \in heapEntries(h)}
    IN  CHOOSE k \in keys : \A j \in keys : j <= k

\* the entries that may be the root: those of largest key
heapRoots(h) == {e \in heapEntries(h) : heapKeyOf(h, e) = heapTopKey(h)}

\* take entry e out of the heap
heapTake(h, e) ==
    [h EXCEPT ![e[1]] = SubSeq(@, 1, e[2] - 1) \o SubSeq(@, e[2] + 1, Len(@))]

\* remove(id): takes out the entry id's handle points to
heapRemove(h, id) == heapTake(h, <<id, Len(h[id])>>)

\* getKey(id)
heapGetKey(h, id) == h[id][Len(h[id])]

\* updateKey(id, key)
heapUpdateKey(h, id, key) == [h EXCEPT ![id][Len(h[id])] = key]

(***************************************************************************)
(* KWayPriorityQueue.  pq holds the object's fields:                       *)
(*   queues            _queues, indexed by position 0 .. k-1               *)
(*   mpart             _mapping[i].part, i in 0 .. k (k is the sentinel)   *)
(*   mindex            _mapping[p].index, p in 0 .. k                      *)
(*   ties              _ties                                               *)
(*   num_entries, num_nonempty_pqs, num_enabled_pqs                        *)
(*   random            the template parameter UseRandomTieBreaking         *)
(***************************************************************************)

\* the constructor followed by initialize()
NewQueue(random) ==
    [queues |-> [i \in 0 .. (K - 1) |-> EmptyHeap],
     mpart |-> [i \in 0 .. K |-> kInvalidPart],
     mindex |-> [p \in 0 .. K |-> kInvalidIndex],
     ties |-> [i \in 1 .. K |-> 0],
     num_entries |-> 0,
     num_nonempty_pqs |-> 0,
     num_enabled_pqs |-> 0,
     random |-> random]

isUnused(q, part) == q.mindex[part] = kInvalidIndex

isEnabled(q, part) == q.mindex[part] < q.num_enabled_pqs

\* size(part)
sizeOfPart(q, part) ==
    IF q.mindex[part] < q.num_nonempty_pqs
    THEN heapSize(q.queues[q.mindex[part]])
    ELSE 0

\* size()
size(q) == q.num_entries

\* empty(part)
emptyPart(q, part) == isUnused(q, part)

\* empty()
empty(q) == q.num_enabled_pqs = 0 \/ q.num_entries = 0

numEnabledParts(q) == q.num_enabled_pqs

numNonEmptyParts(q) == q.num_nonempty_pqs

\* contains() as it would be if it looked at the enabled range only
containsEnabledOnly(q, id, part) ==
    /\ q.mindex[part] < q.num_enabled_pqs
    /\ heapContains(q.queues[q.mindex[part]], id)

\* contains(id, part)
contains(q, id, part) ==
    /\ q.mindex[part] < q.num_nonempty_pqs
    /\ heapContains(q.queues[q.mindex[part]], id)

\* key(id, part)
key(q, id, part) == heapGetKey(q.queues[q.mindex[part]], id)

\* swap(index_a, index_b): the heaps, the parts stored at the two positions
\* and the positions stored for these two parts change places
swap(q, index_a, index_b) ==
    LET queues1 == [q.queues EXCEPT ![index_a] = q.queues[index_b],
                                    ![index_b] = q.queues[index_a]]
        mpart1 == [q.mpart EXCEPT ![index_a] = q.mpart[index_b],
                                  ![index_b] = q.mpart[index_a]]
        pa == mpart1[index_a]
        pb == mpart1[index_b]
        mindex1 == [q.mindex EXCEPT ![pa] = q.mindex[pb],
                                    ![pb] = q.mindex[pa]]
    IN  [q EXCEPT !.queues = queues1, !.mpart = mpart1, !.mindex = mindex1]

markUnused(q, part) ==
    [q EXCEPT !.mpart[q.mindex[part]] = kInvalidPart,
              !.mindex[part] = kInvalidIndex]

\* maxIndex() as it would be if the loop did not store the larger key: the
\* last enabled position wins
RECURSIVE maxIndexFromKeepingKey(_, _, _, _)
maxIndexFromKeepingKey(q, index, max_key, max_index) ==
    IF index >= q.num_enabled_pqs
    THEN max_index
    ELSE LET k == heapTopKey(q.queues[index])
         IN  IF k > max_key
             THEN maxIndexFromKeepingKey(q, index + 1, max_key, index)
             ELSE maxIndexFromKeepingKey(q, index + 1, max_key, max_index)

maxIndexKeepingKey(q) == maxIndexFromKeepingKey(q, 0, MetaKeyMin, kInvalidIndex)

\* maxIndex() as it would be if the loop ran over all the non-empty heaps
RECURSIVE maxIndexFromNonEmpty(_, _, _, _)
maxIndexFromNonEmpty(q, index, max_key, max_index) ==
    IF index >= q.num_nonempty_pqs
    THEN max_index
    ELSE LET k == heapTopKey(q.queues[index])
         IN  IF k > max_key
             THEN maxIndexFromNonEmpty(q, index + 1, k, index)
             ELSE maxIndexFromNonEmpty(q, index + 1, max_key, max_index)

maxIndexOverNonEmpty(q) == maxIndexFromNonEmpty(q, 0, MetaKeyMin, kInvalidIndex)

\* the loop of maxIndex(), from position index on
RECURSIVE maxIndexFrom(_, _, _, _)
maxIndexFrom(q, index, max_key, max_index) ==
    IF index >= q.num_enabled_pqs
    THEN max_index
    ELSE LET k == heapTopKey(q.queues[index])
         IN  IF k > max_key
             THEN maxIndexFrom(q, index + 1, k, index)
             ELSE maxIndexFrom(q, index + 1, max_key, max_index)

maxIndex(q) == maxIndexFrom(q, 0, MetaKeyMin, kInvalidIndex)

\* maxIndexRandomTieBreaking() as it would be if an equal key started the
\* list of ties anew
RECURSIVE tiesFromRestarting(_, _, _, _)
tiesFromRestarting(q, index, max_key, ties) ==
    IF index >= q.num_enabled_pqs
    THEN ties
    ELSE LET k == heapTopKey(q.queues[index])
         IN  IF k >= max_key
             THEN tiesFromRestarting(q, index + 1, k, <<index>>)
             ELSE tiesFromRestarting(q, index + 1, max_key, ties)

maxIndexTiesRestarting(q) == tiesFromRestarting(q, 0, MetaKeyMin, q.ties)

\* the loop of maxIndexRandomTieBreaking(), from position index on: the
\* value of _ties when the loop ends
RECURSIVE tiesFrom(_, _, _, _)
tiesFrom(q, index, max_key, ties) ==
    IF index >= q.num_enabled_pqs
    THEN ties
    ELSE LET k == heapTopKey(q.queues[index])
         IN  IF k > max_key
             THEN tiesFrom(q, index + 1, k, <<index>>)
             ELSE IF k = max_key
                  THEN tiesFrom(q, index + 1, max_key, Append(ties, index))
                  ELSE tiesFrom(q, index + 1, max_key, ties)

maxIndexTies(q) == tiesFrom(q, 0, MetaKeyMin, q.ties)

\* remove's handling of an emptied heap as it would be without the step
\* that takes the part out of the enabled range
retireFromNonEmptyOnly(q, part) ==
    LET q2 == [q EXCEPT !.num_nonempty_pqs = @ - 1]
        q3 == swap(q2, q2.mindex[part], q2.num_nonempty_pqs)
    IN  markUnused(q3, part)

\* what deleteMax, deleteMaxFromPartition and remove do once the entry is
\* out and the heap of part is empty: part leaves the enabled range if it
\* is in it, then the non-empty range
retire(q, part) ==
    LET q1 == IF isEnabled(q, part)
              THEN LET d == [q EXCEPT !.num_enabled_pqs = @ - 1]
                   IN  swap(d, d.mindex[part], d.num_enabled_pqs)
              ELSE q
        q2 == [q1 EXCEPT !.num_nonempty_pqs = @ - 1]
        q3 == swap(q2, q2.mindex[part], q2.num_nonempty_pqs)
    IN  markUnused(q3, part)

\* the pop of the two deleteMax operations as it would be if an emptied
\* heap left the non-empty range only
popAtKeepingEnabled(q, index, e) ==
    LET part == q.mpart[index]
        q1 == [q EXCEPT !.queues[index] = heapTake(@, e)]
        q2 == IF heapEmpty(q1.queues[index])
              THEN LET d == [q1 EXCEPT !.num_nonempty_pqs = @ - 1]
                       s2 == swap(d, d.mindex[part], d.num_nonempty_pqs)
                   IN  markUnused(s2, part)
              ELSE q1
    IN  [q2 EXCEPT !.num_entries = @ - 1]

\* the pop as it would be if the entry were counted off only when the heap
\* becomes empty
popAtCountingEmptied(q, index, e) ==
    LET part == q.mpart[index]
        q1 == [q EXCEPT !.queues[index] = heapTake(@, e)]
    IN  IF heapEmpty(q1.queues[index])
        THEN LET d == [q1 EXCEPT !.num_enabled_pqs = @ - 1,
                                 !.num_nonempty_pqs = @ - 1]
                 s1 == swap(d, d.mindex[part], d.num_enabled_pqs)
                 s2 == swap(s1, s1.mindex[part], s1.num_nonempty_pqs)
             IN  [markUnused(s2, part) EXCEPT !.num_entries = @ - 1]
        ELSE q1

\* deleteMax and deleteMaxFromPartition from the point where the position is
\* known: the root e of the heap at that position is returned and popped
popAt(q, index, e) ==
    LET part == q.mpart[index]
        q1 == [q EXCEPT !.queues[index] = heapTake(@, e)]
        q2 == IF heapEmpty(q1.queues[index])
              THEN LET d == [q1 EXCEPT !.num_enabled_pqs = @ - 1,
                                       !.num_nonempty_pqs = @ - 1]
                       s1 == swap(d, d.mindex[part], d.num_enabled_pqs)
                       s2 == swap(s1, s1.mindex[part], s1.num_nonempty_pqs)
                   IN  markUnused(s2, part)
              ELSE q1
    IN  [q2 EXCEPT !.num_entries = @ - 1]

(***************************************************************************)
(* The operations of the queue, one action each.  ret records the call     *)
(* made last and, for the two deleteMax operations, what it returned.      *)
(***************************************************************************)

\* the value of the variables of what is not exercised
NoFlow == <<>>

\* an insert that puts a part it takes into use into the enabled range
InsertEnabled(id, part, k) ==
    /\ ret.op # "undefined"
    /\ ~contains(pq, id, part)
    /\ pq.num_entries < MaxEntries
    /\ LET n == pq.num_nonempty_pqs
           fresh == pq.mindex[part] = kInvalidIndex
           q1 == [pq EXCEPT !.mpart[n] = IF fresh THEN part ELSE @]
           q2 == IF fresh
                 THEN [q1 EXCEPT !.mindex[part] = n, !.num_nonempty_pqs = n + 1]
                 ELSE q1
           q3 == [q2 EXCEPT !.queues[q2.mindex[part]] = heapPush(@, id, k)]
           q4 == IF fresh
                 THEN [swap(q3, q3.mindex[part], q3.num_enabled_pqs)
                          EXCEPT !.num_enabled_pqs = @ + 1]
                 ELSE q3
       IN  pq' = [q4 EXCEPT !.num_entries = @ + 1]
    /\ ret' = [op |-> "insert"]
    /\ UNCHANGED pq_others

\* insert(id, part, key).  The heap's push requires that id is not in it.
Insert(id, part, k) ==
    /\ ret.op # "undefined"
    /\ ~contains(pq, id, part)
    /\ pq.num_entries < MaxEntries
    /\ LET n == pq.num_nonempty_pqs
           fresh == pq.mindex[part] = kInvalidIndex
           q1 == [pq EXCEPT !.mpart[n] = IF fresh THEN part ELSE @]
           q2 == IF fresh
                 THEN [q1 EXCEPT !.mindex[part] = n, !.num_nonempty_pqs = n + 1]
                 ELSE q1
           q3 == [q2 EXCEPT !.queues[q2.mindex[part]] = heapPush(@, id, k)]
       IN  pq' = [q3 EXCEPT !.num_entries = @ + 1]
    /\ ret' = [op |-> "insert"]
    /\ UNCHANGED pq_others

\* updateKey(id, part, key).  The heap's updateKey requires that id is in it.
UpdateKey(id, part, k) ==
    /\ ret.op # "undefined"
    /\ contains(pq, id, part)
    /\ pq' = [pq EXCEPT !.queues[pq.mindex[part]] = heapUpdateKey(@, id, k)]
    /\ ret' = [op |-> "updateKey"]
    /\ UNCHANGED pq_others

\* remove(id, part)
Remove(id, part) ==
    /\ ret.op # "undefined"
    /\ contains(pq, id, part)
    /\ LET q1 == [pq EXCEPT !.queues[pq.mindex[part]] = heapRemove(@, id)]
           q2 == IF heapEmpty(q1.queues[q1.mindex[part]])
                 THEN retire(q1, part)
                 ELSE q1
       IN  pq' = [q2 EXCEPT !.num_entries = @ - 1]
    /\ ret' = [op |-> "remove", part |-> part]
    /\ UNCHANGED pq_others

\* enablePart(part)
EnablePart(part) ==
    /\ ret.op # "undefined"
    /\ pq' = IF ~isUnused(pq, part) /\ ~isEnabled(pq, part)
             THEN [swap(pq, pq.mindex[part], pq.num_enabled_pqs)
                      EXCEPT !.num_enabled_pqs = @ + 1]
             ELSE pq
    /\ ret' = [op |-> "enablePart"]
    /\ UNCHANGED pq_others

\* disablePart(part)
DisablePart(part) ==
    /\ ret.op # "undefined"
    /\ pq' = IF isEnabled(pq, part)
             THEN LET d == [pq EXCEPT !.num_enabled_pqs = @ - 1]
                  IN  swap(d, d.mindex[part], d.num_enabled_pqs)
             ELSE pq
    /\ ret' = [op |-> "disablePart"]
    /\ UNCHANGED pq_others

\* deleteMax(max_id, max_key, max_part): the outcomes of a call, each the
\* queue it leaves and what it returns.  The position is maxIndex() or, with
\* random tie-breaking, any element of _ties.  A position that holds no
\* entry is outside what the code may read: the outcome is then undefined.
deleteMaxOutcomes(q) ==
    LET ties1 == IF q.random THEN maxIndexTies(q) ELSE q.ties
        q1 == [q EXCEPT !.ties = ties1]
        picks == IF q.random
                 THEN {ties1[r] : r \in 1 .. Len(ties1)}
                 ELSE {maxIndex(q)}
    IN  UNION {
            IF max_index \in 0 .. (K - 1) /\ ~heapEmpty(q1.queues[max_index])
            THEN {<<popAt(q1, max_index, e),
                    [op |-> "deleteMax",
                     id |-> e[1],
                     key |-> heapKeyOf(q1.queues[max_index], e),
                     part |-> q1.mpart[max_index]]>> :
                      e \in heapRoots(q1.queues[max_index])}
            ELSE {<<q1, [op |-> "undefined"]>>} :
            max_index \in picks}

\* deleteMax is called on a queue that is not empty()
DeleteMax ==
    /\ ret.op # "undefined"
    /\ ~empty(pq)
    /\ \E o \in deleteMaxOutcomes(pq) :
           /\ pq' = o[1]
           /\ ret' = o[2]
    /\ UNCHANGED pq_others

\* deleteMaxFromPartition(max_id, max_key, part), called for an enabled part
DeleteMaxFromPartition(part) ==
    /\ ret.op # "undefined"
    /\ isEnabled(pq, part)
    /\ LET part_index == pq.mindex[part]
       IN  \E e \in heapRoots(pq.queues[part_index]) :
               /\ pq' = popAt(pq, part_index, e)
               /\ ret' = [op |-> "deleteMaxFromPartition",
                          id |-> e[1],
                          key |-> heapKeyOf(pq.queues[part_index], e),
                          part |-> part]
    /\ UNCHANGED pq_others

\* clear()
Clear ==
    /\ ret.op # "undefined"
    /\ pq' = [pq EXCEPT !.queues = [i \in 0 .. (K - 1) |-> EmptyHeap],
                        !.mpart = [i \in 0 .. K |->
                                      IF i < K THEN kInvalidPart ELSE pq.mpart[i]],
                        !.mindex = [p \in 0 .. K |->
                                       IF p < K THEN kInvalidIndex ELSE pq.mindex[p]],
                        !.num_entries = 0,
                        !.num_nonempty_pqs = 0,
                        !.num_enabled_pqs = 0]
    /\ ret' = [op |-> "clear"]
    /\ UNCHANGED pq_others

InitPQ ==
    /\ pq \in {NewQueue(FALSE), NewQueue(TRUE)}
    /\ ret = [op |-> "init"]
    /\ hg = NoFlow
    /\ best_metrics = NoFlow
    /\ refiner = NoFlow
    /\ context = NoFlow
    /\ observed = NoFlow
    /\ solver = NoFlow
    /\ policy = NoFlow
    /\ runs = NoFlow
    /\ fm = NoFlow
    /\ driver = NoFlow
    /\ evo = NoFlow
    /\ extractor = NoFlow

NextPQ ==
    \/ \E id \in Ids, part \in Parts, k \in Keys : Insert(id, part, k)
    \/ \E id \in Ids, part \in Parts, k \in Keys : UpdateKey(id, part, k)
    \/ \E id \in Ids, part \in Parts : Remove(id, part)
    \/ \E part \in Parts : EnablePart(part)
    \/ \E part \in Parts : DisablePart(part)
    \/ DeleteMax
    \/ \E part \in Parts : DeleteMaxFromPartition(part)
    \/ Clear

SpecPQ == InitPQ /\ [][NextPQ]_vars

(***************************************************************************)
(* Properties of the queue.                                                *)
(***************************************************************************)

\* the entries of part, as (id, key) pairs, whatever its range
PartEntries(q, part) ==
    IF isUnused(q, part)
    THEN {}
    ELSE LET h == q.queues[q.mindex[part]]
         IN  {<<e[1], heapKeyOf(h, e)>> : e \in heapEntries(h)}

EnabledKeys(q) ==
    UNION {{e[2] : e \in PartEntries(q, part)} :
              part \in {p \in Parts : isEnabled(q, p)}}

DisabledKeys(q) ==
    UNION {{e[2] : e \in PartEntries(q, part)} :
              part \in {p \in Parts : ~isEnabled(q, p)}}

\* C1: a deleteMax call on a queue with an enabled sub-queue returns an
\* entry, and its key is at least the key of every entry that is in an
\* enabled sub-queue when the call is made.
C1_DeleteMaxReturnsMaximum ==
    [][/\ ret'.op # "undefined"
       /\ ret'.op = "deleteMax" =>
              /\ <<ret'.id, ret'.key>> \in PartEntries(pq, ret'.part)
              /\ \A k \in EnabledKeys(pq) : k <= ret'.key]_vars

\* deleteMax has returned the largest enabled key while a smaller key is
\* still in an enabled sub-queue
C1_Witness ==
    /\ ret.op = "deleteMax"
    /\ \E k \in EnabledKeys(pq) : k < ret.key

\* C2: deleteMax returns entries of enabled parts only; disablePart(b)
\* takes b out of the enabled range and only enablePart(b) brings it back;
\* enablePart(b) on a part that has entries enables it and leaves its
\* entries and their keys as they are.
C2_DisabledPartsAreSkipped ==
    [][/\ ret'.op = "deleteMax" => isEnabled(pq, ret'.part)
       /\ \A b \in Parts :
              /\ (ret'.op = "disablePart" /\ DisablePart(b)) => ~isEnabled(pq', b)
              /\ (~isEnabled(pq, b) /\ isEnabled(pq', b)) => EnablePart(b)
              /\ (ret'.op = "enablePart" /\ ~isUnused(pq, b) /\ EnablePart(b)) =>
                     /\ isEnabled(pq', b)
                     /\ PartEntries(pq', b) = PartEntries(pq, b)]_vars

\* deleteMax has passed over a disabled part that holds a larger key
C2_Witness ==
    /\ ret.op = "deleteMax"
    /\ \E k \in DisabledKeys(pq) : k > ret.key

\* C3: every heap at a position below num_enabled_pqs holds an entry, and
\* num_enabled_pqs <= num_nonempty_pqs <= k.
C3_EnabledQueuesAreNonEmpty ==
    /\ \A index \in 0 .. (K - 1) :
           index < pq.num_enabled_pqs => ~heapEmpty(pq.queues[index])
    /\ pq.num_enabled_pqs <= pq.num_nonempty_pqs
    /\ pq.num_nonempty_pqs <= K

\* deleteMax has taken the last entry of a part while another part is
\* enabled, and that part is still enabled
C3_Witness ==
    /\ ret.op = "deleteMax"
    /\ isUnused(pq, ret.part)
    /\ pq.num_enabled_pqs = 1

\* part b holds exactly one entry
HoldsLastEntry(q, b) ==
    ~isUnused(q, b) /\ heapSize(q.queues[q.mindex[b]]) = 1

\* C4: when remove, deleteMax or deleteMaxFromPartition takes the last
\* entry of part b, then afterwards empty(b) holds, b is not enabled, the
\* number of non-empty parts is one less, the number of enabled parts is
\* one less if b was enabled and the same otherwise, and every other part
\* has the status and the entries it had.
C4_LastEntryRetiresPart ==
    [][\A b \in Parts :
           ( /\ HoldsLastEntry(pq, b)
             /\ ret'.op \in {"remove", "deleteMax", "deleteMaxFromPartition"}
             /\ ret'.part = b )
           => /\ emptyPart(pq', b)
              /\ ~isEnabled(pq', b)
              /\ sizeOfPart(pq', b) = 0
              /\ numNonEmptyParts(pq') = numNonEmptyParts(pq) - 1
              /\ numEnabledParts(pq') =
                     numEnabledParts(pq) - (IF isEnabled(pq, b) THEN 1 ELSE 0)
              /\ \A c \in Parts \ {b} :
                     /\ isEnabled(pq', c) = isEnabled(pq, c)
                     /\ emptyPart(pq', c) = emptyPart(pq, c)
                     /\ sizeOfPart(pq', c) = sizeOfPart(pq, c)
                     /\ PartEntries(pq', c) = PartEntries(pq, c)
                     /\ \A id \in Ids :
                            contains(pq', id, c) = contains(pq, id, c)]_vars

\* remove has taken the last entry of an enabled part's neighbour: the part
\* named in the call is unused now and the other one is still enabled
C4_Witness ==
    /\ ret.op = "remove"
    /\ isUnused(pq, ret.part)
    /\ pq.num_enabled_pqs = 1

RECURSIVE SumSizes(_, _)
SumSizes(q, n) ==
    IF n = 0 THEN 0 ELSE heapSize(q.queues[n - 1]) + SumSizes(q, n - 1)

\* C5: num_entries, which size() returns, is the sum of the sizes of all
\* the heaps, and size(b) is 0 exactly for the unused parts.
C5_SizeIsSumOfSubQueues ==
    /\ size(pq) = SumSizes(pq, K)
    /\ \A b \in Parts : (sizeOfPart(pq, b) = 0) <=> isUnused(pq, b)

\* an entry has been taken from an enabled part and the entry that is left
\* is in a disabled part: it is counted
C5_Witness ==
    /\ ret.op = "deleteMaxFromPartition"
    /\ size(pq) = 1
    /\ pq.num_enabled_pqs = 0
    /\ pq.num_nonempty_pqs = 1

TiedPositions(q) ==
    {i \in 0 .. (K - 1) :
        /\ i < q.num_enabled_pqs
        /\ \A j \in 0 .. (K - 1) :
               j < q.num_enabled_pqs =>
                   heapTopKey(q.queues[j]) <= heapTopKey(q.queues[i])}

\* C7: with random tie-breaking deleteMax never returns a key smaller than
\* an enabled one; when it returns, _ties lists each enabled sub-queue whose
\* top key is the maximum exactly once and nothing else (the returned
\* position is drawn uniformly from _ties), the returned part is one of
\* them, and each of them can be the one returned.
C7_RandomTieBreakingPicksAnyMaximum ==
    ( pq.random /\ ret.op # "undefined" /\ ~empty(pq) ) =>
        /\ \A i \in TiedPositions(pq) :
               \E o \in deleteMaxOutcomes(pq) :
                   o[2].op = "deleteMax" /\ o[2].part = pq.mpart[i]
        /\ \A o \in deleteMaxOutcomes(pq) :
               /\ o[2].op = "deleteMax"
               /\ \A k \in EnabledKeys(pq) : k <= o[2].key
               /\ {o[1].ties[r] : r \in 1 .. Len(o[1].ties)} = TiedPositions(pq)
               /\ Len(o[1].ties) = Cardinality(TiedPositions(pq))
               /\ pq.mindex[o[2].part] \in TiedPositions(pq)

\* deleteMax with random tie-breaking has returned the entry of part 1
\* while part 0, enabled too, holds the same key as its largest
C7_Witness ==
    /\ pq.random
    /\ ret.op = "deleteMax"
    /\ ret.part = 1
    /\ isEnabled(pq, 0)
    /\ \E e \in PartEntries(pq, 0) : e[2] = ret.key
    /\ \A k \in EnabledKeys(pq) : k <= ret.key

\* C34: a part that is unused when an entry is inserted into it is
\* non-empty and disabled afterwards, and it becomes enabled through
\* enablePart only, called while it has entries; enablePart on a part
\* without entries leaves the whole queue as it is, so nothing of the call
\* is left when an entry is inserted into the part later.
C34_InsertLeavesPartDisabled ==
    [][\A b \in Parts :
           /\ (isUnused(pq, b) /\ ~isUnused(pq', b)) =>
                  /\ ret'.op = "insert"
                  /\ ~emptyPart(pq', b)
                  /\ sizeOfPart(pq', b) = 1
                  /\ ~isEnabled(pq', b)
           /\ (~isEnabled(pq, b) /\ isEnabled(pq', b)) =>
                  /\ ret'.op = "enablePart"
                  /\ ~isUnused(pq, b)
           /\ (isUnused(pq, b) /\ EnablePart(b)) => pq' = pq]_vars

\* an insert has taken a part into use while another part is enabled: the
\* part holds the entry and is disabled
C34_Witness ==
    /\ ret.op = "insert"
    /\ \E b \in Parts :
        /\ ~isUnused(pq, b)
        /\ ~isEnabled(pq, b)
        /\ sizeOfPart(pq, b) = 1
        /\ \E c \in Parts \ {b} : isEnabled(pq, c)

(***************************************************************************)
(* The queue with every key a KeyType can hold: MetaKey::min(), the start  *)
(* value of the scans of maxIndex and maxIndexRandomTieBreaking, is a key  *)
(* too.  A scan that meets no key above its start value leaves max_index   *)
(* at kInvalidIndex, and with random tie-breaking leaves in _ties what the *)
(* constructor (k zeros) or the call before put there, with the positions  *)
(* of the equal keys appended.                                             *)
(***************************************************************************)
AnyKeys == MetaKeyMin .. MaxKey

\* _ties grows with every scan that meets the start value only: the model
\* makes no further deleteMax call once it is longer than this
MaxTies == 3

NextPQAnyKey ==
    \/ \E id \in Ids, part \in Parts, k \in AnyKeys : Insert(id, part, k)
    \/ \E id \in Ids, part \in Parts, k \in AnyKeys : UpdateKey(id, part, k)
    \/ \E id \in Ids, part \in Parts : Remove(id, part)
    \/ \E part \in Parts : EnablePart(part)
    \/ \E part \in Parts : DisablePart(part)
    \/ Len(pq.ties) <= MaxTies /\ DeleteMax
    \/ \E part \in Parts : DeleteMaxFromPartition(part)
    \/ Clear

SpecPQAnyKey == InitPQ /\ [][NextPQAnyKey]_vars

\* C35: whenever empty() returns false, every outcome of deleteMax is an
\* entry: the position chosen is below _num_enabled_pqs and what is returned
\* is the top entry of the heap at that position, whatever the keys in the
\* queue, MetaKey::min() among them, with and without random tie-breaking.
C35_DeleteMaxSucceeds ==
    ( ret.op # "undefined" /\ ~empty(pq) ) =>
        \A o \in deleteMaxOutcomes(pq) :
            /\ o[2].op = "deleteMax"
            /\ isEnabled(pq, o[2].part)
            /\ <<o[2].id, o[2].key>> \in PartEntries(pq, o[2].part)
            /\ o[2].key = heapTopKey(pq.queues[pq.mindex[o[2].part]])

\* the queue is not empty() and every enabled sub-queue has the key
\* MetaKey::min() at its top
onlySmallestKeyEnabled ==
    /\ ret.op # "undefined"
    /\ ~empty(pq)
    /\ EnabledKeys(pq) = {MetaKeyMin}

\* with random tie-breaking, a position left in _ties by an earlier call
\* lets deleteMax return the entry of a disabled part
canReturnFromDisabledPart ==
    /\ pq.random
    /\ ret.op # "undefined"
    /\ ~empty(pq)
    /\ \E o \in deleteMaxOutcomes(pq) :
        /\ o[2].op = "deleteMax"
        /\ ~isEnabled(pq, o[2].part)


(***************************************************************************)
(* The two-way flow refiner.                                               *)
(*                                                                         *)
(* The hypergraph is a fixed instance with two blocks.  The Hypergraph     *)
(* class keeps, next to the block of every hypernode, the weight of every  *)
(* block and the number of pins every hyperedge has in every block.        *)
(***************************************************************************)
HNs == 0 .. 3
HEs == 0 .. 3
Blocks == {0, 1}

\* the refined pair of blocks
block0 == 0
block1 == 1

pinsOf(he) == <<{0, 1}, {1, 2, 3}, {2, 3}, {0, 3}>>[he + 1]
edgeWeight(he) == <<3, 5, 5, 3>>[he + 1]
nodeWeight(hn) == <<1, 1, 1, 2>>[hn + 1]
initialNumNodes == Cardinality(HNs)

RECURSIVE sumOver(_, _)
sumOver(S, w) ==
    IF S = {}
    THEN 0
    ELSE LET x == CHOOSE y \in S : \A z \in S : y <= z
         IN  w[x] + sumOver(S \ {x}, w)

\* the hypergraph with the partition p
partitioned(p) ==
    [part |-> p,
     part_weight |-> [b \in Blocks |->
                         sumOver({hn \in HNs : p[hn] = b},
                                 [hn \in HNs |-> nodeWeight(hn)])],
     pins_in_part |-> [he \in HEs |-> [b \in Blocks |->
                         Cardinality({hn \in pinsOf(he) : p[hn] = b})]]]

\* Hypergraph::changeNodePart(hn, from, to)
changeNodePart(h, hn, from, to) ==
    [h EXCEPT !.part[hn] = to,
              !.part_weight = [b \in Blocks |->
                  h.part_weight[b]
                  - (IF b = from THEN nodeWeight(hn) ELSE 0)
                  + (IF b = to THEN nodeWeight(hn) ELSE 0)],
              !.pins_in_part = [he \in HEs |-> [b \in Blocks |->
                  IF hn \in pinsOf(he)
                  THEN h.pins_in_part[he][b]
                       - (IF b = from THEN 1 ELSE 0)
                       + (IF b = to THEN 1 ELSE 0)
                  ELSE h.pins_in_part[he][b]]]]

\* the hyperedges with pins in both blocks
cutHyperedges(h) ==
    {he \in HEs : \A b \in Blocks : h.pins_in_part[he][b] > 0}

\* metrics::objective: the weight of the cut hyperedges (with two blocks the
\* cut and the (connectivity - 1) metric are the same number)
objective(h) == sumOver(cutHyperedges(h), [he \in HEs |-> edgeWeight(he)])

\* metrics::imbalance is max_b W(b) / ceil(W(V) / k) - 1.  The divisor is the
\* same for every partition of the hypergraph, so the model keeps the weight
\* of the heaviest block: one is below another exactly when the quotients
\* are.  context.epsilon is in the same unit.
imbalance(h) ==
    CHOOSE w \in {h.part_weight[b] : b \in Blocks} :
        \A b \in Blocks : h.part_weight[b] <= w


(***************************************************************************)
(* The flow problem.  The flow network is built over a region of           *)
(* hypernodes; the pins outside the region stay where they are.  A         *)
(* hyperedge is in the network when it has a pin in the region, and the    *)
(* value of a maximum flow is the least weight of network hyperedges that  *)
(* any assignment of the region to the two blocks leaves cut.              *)
(***************************************************************************)
networkHyperedges(region) == {he \in HEs : pinsOf(he) \cap region # {}}

\* the weight of the network's hyperedges that p cuts
networkCut(p, region) ==
    sumOver({he \in networkHyperedges(region) :
                 \A b \in Blocks : \E hn \in pinsOf(he) : p[hn] = b},
            [he \in HEs |-> edgeWeight(he)])

\* the partitions that differ from p inside the region only
regionAssignments(p, region) ==
    {a \in [HNs -> Blocks] : \A hn \in HNs \ region : a[hn] = p[hn]}

\* FlowNetwork::build returns the cut of the flow problem before the flow
build(h, region) == networkCut(h.part, region)

\* maximumFlow(): the value of a minimum (S,T)-cut of the network
maximumFlow(h, region) ==
    LET values == {networkCut(a, region) : a \in regionAssignments(h.part, region)}
    IN  CHOOSE c \in values : \A d \in values : c <= d

\* the bipartitions a minimum cut can leave (the source side is the set
\* bfs<true> reaches, or the one mostBalancedMinimumCut picks)
minimumCuts(h, region) ==
    LET cut == maximumFlow(h, region)
    IN  {a \in regionAssignments(h.part, region) : networkCut(a, region) = cut}

\* MaximumFlow::moveHypernode(hn, to)
moveHypernode(h, hn, to) ==
    LET from == h.part[hn]
    IN  IF from # to THEN changeNodePart(h, hn, from, to) ELSE h

\* moveHypernode(hn, target[hn]) for every hypernode of the flow network,
\* in the order of the hypernode ids
RECURSIVE moveHypernodes(_, _, _)
moveHypernodes(h, hns, target) ==
    IF hns = {}
    THEN h
    ELSE LET hn == CHOOSE x \in hns : \A y \in hns : x <= y
         IN  moveHypernodes(moveHypernode(h, hn, target[hn]), hns \ {hn}, target)

\* MaximumFlow::minimumSTCut for a flow that is not trivial: the hypergraph
\* and _originalPartID it leaves when the minimum cut found is a
minimumSTCut(h, originalPartID, region, defaultPart, a) ==
    LET stored == [hn \in HNs |-> IF hn \in region
                                  THEN h.part[hn]
                                  ELSE originalPartID[hn]]
        h1 == moveHypernodes(h, region, [hn \in HNs |-> defaultPart])
    IN  [hg |-> moveHypernodes(h1, region, a), originalPartID |-> stored]

\* a rollback that leaves the hypernodes where the minimum cut put them
rollbackKeepingCut(h, originalPartID, region, storePartID) ==
    [hg |-> h,
     originalPartID |-> [hn \in HNs |-> IF storePartID /\ hn \in region
                                        THEN h.part[hn]
                                        ELSE originalPartID[hn]]]

\* MaximumFlow::rollback(storePartID)
rollback(h, originalPartID, region, storePartID) ==
    [hg |-> moveHypernodes(h, region, originalPartID),
     originalPartID |-> [hn \in HNs |-> IF storePartID /\ hn \in region
                                        THEN h.part[hn]
                                        ELSE originalPartID[hn]]]

\* MaximumFlow::getOriginalPartition(hn)
getOriginalPartition(originalPartID, hn) == originalPartID[hn]

\* executeFlow were the threshold taken only above it
executeFlowAbove(levels, currentNumNodes) ==
    IF Len(levels) = 0
    THEN [execute |-> FALSE, levels |-> levels]
    ELSE IF currentNumNodes > levels[Len(levels)]
         THEN [execute |-> TRUE, levels |-> SubSeq(levels, 1, Len(levels) - 1)]
         ELSE [execute |-> FALSE, levels |-> levels]

\* FlowExecutionPolicy::executeFlow: whether flows run on this level, and
\* the levels that remain
executeFlow(levels, currentNumNodes) ==
    IF Len(levels) = 0
    THEN [execute |-> FALSE, levels |-> levels]
    ELSE IF currentNumNodes >= levels[Len(levels)]
         THEN [execute |-> TRUE, levels |-> SubSeq(levels, 1, Len(levels) - 1)]
         ELSE [execute |-> FALSE, levels |-> levels]


(***************************************************************************)
(* TwoWayFlowRefiner::refineImpl, one action per stretch of its body.      *)
(* refiner.pc is the position of the call: "idle" outside a call, "loop"   *)
(* at the head of the adaptive flow iterations, "built" with the flow      *)
(* problem built, "cut" after minimumSTCut, "evaluated" after the test of  *)
(* the result, "rolledback" after rollback, "exit" behind the loop.        *)
(* observed keeps what the properties compare with: best_metrics and the   *)
(* partition at the start of the call, whether a call went before it,     *)
(* from minimumSTCut until the next pass or the return the hypergraph      *)
(* before and after minimumSTCut, and of the pass of the call that was     *)
(* evaluated last its alpha (0: none yet), its verdict and whether the cut *)
(* of its flow network was the same before and after, whether the call     *)
(* was left by heuristic 1, and from the head of the loop to the return    *)
(* the number of passes of the call and what left the loop.                *)
(***************************************************************************)
NoPass == [before |-> <<>>, after |-> <<>>, best |-> <<>>]

\* Hypergraph::currentNumNodes(): the last level is that of all hypernodes
currentNumNodes(c) ==
    IF c.last_level THEN initialNumNodes ELSE initialNumNodes - 1

\* a refiner that takes no level for the last
neverOnLastLevel(c) == FALSE

\* TwoWayFlowRefiner::isRefinementOnLastLevel()
isRefinementOnLastLevel(c) == currentNumNodes(c) = initialNumNodes

\* the weight of the cut below which heuristic 1 skips the pair of blocks
SmallCutWeight == 10

\* a test that takes every bipartition whose metric is no higher
acceptsCutOnMetric(current_metric, current_imbalance, best, epsilon) ==
    current_metric <= best.objective

\* a test that takes every bipartition of lower metric, feasible or not
acceptsLowerMetric(current_metric, current_imbalance, best, epsilon) ==
    \/ current_metric < best.objective
    \/ current_metric = best.objective /\ current_imbalance < best.imbalance

\* a test that takes every bipartition that is no worse
acceptsCutNoWorse(current_metric, current_imbalance, best, epsilon) ==
    \/ current_metric < best.objective
    \/ current_metric = best.objective /\ current_imbalance <= best.imbalance

\* lines 570-577: the test of the flow's result, whether the bipartition
\* is taken
acceptsCut(current_metric, current_imbalance, best, epsilon) ==
    LET equal_metric == current_metric = best.objective
        improved_metric == current_metric < best.objective
        improved_imbalance == current_imbalance < best.imbalance
        is_feasible_partition == current_imbalance <= epsilon
    IN  \/ improved_metric /\ (is_feasible_partition \/ improved_imbalance)
        \/ equal_metric /\ improved_imbalance

\* moves in the quotient graph that leave the hypergraph alone
performNoMoves(h, originalPartID, hns) == h

\* lines 590-598.  QuotientGraphBlockScheduler::changeNodePart moves the
\* hypernode in the hypergraph and updates the cut hyperedges of the pairs
\* of blocks.
RECURSIVE performMoves(_, _, _)
performMoves(h, originalPartID, hns) ==
    IF hns = {}
    THEN h
    ELSE LET hn == CHOOSE x \in hns : \A y \in hns : x <= y
             from == h.part[hn]
             to == getOriginalPartition(originalPartID, hn)
         IN  performMoves(IF from # to THEN changeNodePart(h, hn, from, to) ELSE h,
                          originalPartID, hns \ {hn})

\* lines 475-493: the execution policy, the quotient graph, the locals
Enter ==
    /\ refiner.pc = "idle"
    /\ LET e == executeFlow(refiner.levels, currentNumNodes(context))
       IN  IF ~e.execute /\ ~context.ignore_flow_execution_policy
           THEN refiner' = [refiner EXCEPT !.levels = e.levels,
                                           !.result = "false"]
           ELSE refiner' = [refiner EXCEPT
                               !.levels = e.levels,
                               !.quotient_graph =
                                   IF @ = "none" THEN "own" ELSE @,
                               !.improvement = FALSE,
                               !.alpha = context.alpha * 2,
                               !.result = "running",
                               !.pc = "loop"]
    /\ observed' = [call_best |-> best_metrics, call_part |-> hg.part,
                    pass |-> NoPass, second |-> refiner.result # "none",
                    last_alpha |-> 0, last_improved |-> FALSE,
                    last_cut_unchanged |-> FALSE,
                    small_cut_skip |-> FALSE,
                    passes |-> 0, left |-> "none"]
    /\ UNCHANGED <<hg, best_metrics, context, flow_others>>

\* lines 497-530: the head of a flow iteration up to the built flow problem.
\* alpha is a power of two that is at least 2 here, so halving it is exact.
BuildFlowProblem ==
    /\ refiner.pc = "loop"
    /\ LET alpha == refiner.alpha \div 2
           cut_hes == cutHyperedges(hg)
           cut_weight == sumOver(cut_hes, [he \in HEs |-> edgeWeight(he)])
       IN  IF /\ context.ignore_small_hyperedge_cut
              /\ cut_weight <= SmallCutWeight
              /\ ~isRefinementOnLastLevel(context)
           THEN /\ refiner' = [refiner EXCEPT !.alpha = 0,
                                               !.improvement = FALSE,
                                               !.result = "false",
                                               !.pc = "idle"]
                /\ observed' = [observed EXCEPT !.pass = NoPass,
                                                !.last_alpha = 0,
                                                !.last_improved = FALSE,
                                                !.last_cut_unchanged = FALSE,
                                                !.small_cut_skip = TRUE,
                                                !.passes = 0,
                                                !.left = "none"]
           ELSE /\ IF cut_hes = {}
                   THEN refiner' = [refiner EXCEPT !.alpha = alpha,
                                                   !.pc = "exit"]
                   ELSE \E region \in SUBSET HNs :
                            /\ \E he \in cut_hes : pinsOf(he) \cap region # {}
                            /\ refiner' = [refiner EXCEPT
                                   !.alpha = alpha,
                                   !.region = region,
                                   !.cut_flow_network_before = build(hg, region),
                                   !.pc = "built"]
                /\ observed' = [observed EXCEPT
                       !.pass = NoPass,
                       !.passes = @ + 1,
                       !.left = IF cut_hes = {} THEN "empty_cut" ELSE "none"]
    /\ UNCHANGED <<hg, best_metrics, context, flow_others>>

\* line 536 with MaximumFlow::minimumSTCut.  Whether the flow is trivial is
\* the flow network's verdict: either answer is allowed for.  For a trivial
\* flow minimumSTCut returns INFTY and the loop is left (lines 541-544).
MinimumSTCut ==
    /\ refiner.pc = "built"
    /\ \E isTrivialFlow \in BOOLEAN :
           IF isTrivialFlow
           THEN /\ refiner' = [refiner EXCEPT !.region = {}, !.pc = "exit"]
                /\ observed' = [observed EXCEPT !.left = "trivial_flow"]
                /\ UNCHANGED hg
           ELSE \E a \in minimumCuts(hg, refiner.region),
                   defaultPart \in {block0, block1} :
                    LET r == minimumSTCut(hg, refiner.originalPartID,
                                          refiner.region, defaultPart, a)
                    IN  /\ hg' = r.hg
                        /\ refiner' = [refiner EXCEPT
                               !.originalPartID = r.originalPartID,
                               !.cut_flow_network_after =
                                   maximumFlow(hg, refiner.region),
                               !.pc = "cut"]
                        /\ observed' = [observed EXCEPT !.pass =
                               [before |-> hg, after |-> r.hg,
                                best |-> best_metrics]]
    /\ UNCHANGED <<best_metrics, context, flow_others>>

\* a schedule that doubles alpha after every pass that improved
alphaDoubled(alpha, configured) == alpha * 4

\* line 583: alpha after a pass that improved; the head of the loop halves it
alphaAfterImprovement(alpha, configured) ==
    alpha * (IF alpha = configured THEN 2 ELSE 4)

\* lines 546-584: the result is compared with best_metrics
Evaluate ==
    /\ refiner.pc = "cut"
    /\ LET delta == refiner.cut_flow_network_before
                    - refiner.cut_flow_network_after
           current_imbalance == imbalance(hg)
           old_metric == best_metrics.objective
           current_metric == old_metric - delta
       IN  IF acceptsCut(current_metric, current_imbalance,
                         best_metrics, context.epsilon)
           THEN /\ best_metrics' = [objective |-> current_metric,
                                    imbalance |-> current_imbalance]
                /\ refiner' = [refiner EXCEPT
                       !.improvement = TRUE,
                       !.current_improvement = TRUE,
                       !.alpha = alphaAfterImprovement(@, context.alpha),
                       !.pc = "evaluated"]
                /\ observed' = [observed EXCEPT
                       !.last_alpha = refiner.alpha,
                       !.last_improved = TRUE,
                       !.last_cut_unchanged = delta = 0]
           ELSE /\ best_metrics' = best_metrics
                /\ refiner' = [refiner EXCEPT !.current_improvement = FALSE,
                                              !.pc = "evaluated"]
                /\ observed' = [observed EXCEPT
                       !.last_alpha = refiner.alpha,
                       !.last_improved = FALSE,
                       !.last_cut_unchanged = delta = 0]
    /\ UNCHANGED <<hg, context, flow_others>>

\* line 586: _maximum_flow->rollback(current_improvement)
Rollback ==
    /\ refiner.pc = "evaluated"
    /\ LET r == rollback(hg, refiner.originalPartID, refiner.region,
                         refiner.current_improvement)
       IN  /\ hg' = r.hg
           /\ refiner' = [refiner EXCEPT !.originalPartID = r.originalPartID,
                                         !.pc = "rolledback"]
    /\ UNCHANGED <<best_metrics, context, observed, flow_others>>

\* a heuristic 2 that never leaves the loop
neverStops(use_rule, improvement, before, after) == FALSE

\* lines 603-606, heuristic 2: whether the adaptive flow iterations are left
stopsAdaptiveFlowIterations(use_rule, improvement, before, after) ==
    use_rule /\ ~improvement /\ before = after

\* lines 590-607: the moves in the quotient graph, heuristic 2 and the
\* loop's condition.  The locals of the iteration end here; the flow network
\* and _originalPartID are not read again before line 498 resets the one and
\* line 732 overwrites the other, and the model forgets them here.
QuotientMoves ==
    /\ refiner.pc = "rolledback"
    /\ hg' = IF refiner.current_improvement
             THEN performMoves(hg, refiner.originalPartID, refiner.region)
             ELSE hg
    /\ refiner' = [refiner EXCEPT
           !.cut_flow_network_before = 0,
           !.cut_flow_network_after = 0,
           !.region = {},
           !.originalPartID = [hn \in HNs |-> 0],
           !.current_improvement = FALSE,
           !.pc = IF stopsAdaptiveFlowIterations(
                         context.use_adaptive_alpha_stopping_rule,
                         refiner.improvement,
                         refiner.cut_flow_network_before,
                         refiner.cut_flow_network_after)
                  THEN "exit"
                  ELSE IF refiner.alpha > 1 THEN "loop" ELSE "exit"]
    /\ observed' = [observed EXCEPT !.left =
           IF stopsAdaptiveFlowIterations(
                  context.use_adaptive_alpha_stopping_rule,
                  refiner.improvement,
                  refiner.cut_flow_network_before,
                  refiner.cut_flow_network_after)
           THEN "stopping_rule"
           ELSE IF refiner.alpha > 1 THEN "none" ELSE "condition"]
    /\ UNCHANGED <<best_metrics, context, flow_others>>

\* lines 609-617: the refiner's own quotient graph is deleted.  The locals
\* alpha and improvement end with the call.
Return ==
    /\ refiner.pc = "exit"
    /\ refiner' = [refiner EXCEPT
           !.quotient_graph = IF @ = "own" THEN "none" ELSE @,
           !.alpha = 0,
           !.improvement = FALSE,
           !.result = IF refiner.improvement THEN "true" ELSE "false",
           !.pc = "idle"]
    /\ observed' = [observed EXCEPT !.pass = NoPass,
                                    !.last_alpha = 0,
                                    !.last_improved = FALSE,
                                    !.last_cut_unchanged = FALSE,
                                    !.passes = 0,
                                    !.left = "none"]
    /\ UNCHANGED <<hg, best_metrics, context, flow_others>>

\* the configurations of the refiner: context.local_search.flow.alpha, a
\* power of two, and context.partition.epsilon as the heaviest block a
\* feasible partition may have (the hypernodes weigh 5 in all)
Alphas == {1, 2}
Epsilons == {3}

InitFlow ==
    /\ hg \in {partitioned(p) : p \in [HNs -> Blocks]}
    /\ best_metrics = [objective |-> objective(hg), imbalance |-> imbalance(hg)]
    /\ context \in [alpha : Alphas,
                    epsilon : Epsilons,
                    ignore_small_hyperedge_cut : BOOLEAN,
                    use_adaptive_alpha_stopping_rule : BOOLEAN,
                    ignore_flow_execution_policy : BOOLEAN,
                    last_level : BOOLEAN]
    /\ \E levels \in {<<>>, <<initialNumNodes>>},
          quotient_graph \in {"none", "supplied"} :
           refiner = [pc |-> "idle",
                      levels |-> levels,
                      quotient_graph |-> quotient_graph,
                      alpha |-> 0,
                      improvement |-> FALSE,
                      current_improvement |-> FALSE,
                      region |-> {},
                      cut_flow_network_before |-> 0,
                      cut_flow_network_after |-> 0,
                      originalPartID |-> [hn \in HNs |-> 0],
                      result |-> "none"]
    /\ observed = [call_best |-> best_metrics, call_part |-> hg.part,
                   pass |-> NoPass, second |-> FALSE,
                   last_alpha |-> 0, last_improved |-> FALSE,
                   last_cut_unchanged |-> FALSE,
                   small_cut_skip |-> FALSE,
                   passes |-> 0, left |-> "none"]
    /\ pq = NewQueue(FALSE)
    /\ ret = [op |-> "init"]
    /\ solver = NoFlow
    /\ policy = NoFlow
    /\ runs = NoFlow
    /\ fm = NoFlow
    /\ driver = NoFlow
    /\ evo = NoFlow
    /\ extractor = NoFlow

NextFlow ==
    \/ Enter
    \/ BuildFlowProblem
    \/ MinimumSTCut
    \/ Evaluate
    \/ Rollback
    \/ QuotientMoves
    \/ Return

SpecFlow == InitFlow /\ [][NextFlow]_vars


(***************************************************************************)
(* Properties of the flow refiner.                                         *)
(***************************************************************************)

\* m is lexicographically no worse than n as (objective, imbalance)
noWorse(m, n) ==
    \/ m.objective < n.objective
    \/ m.objective = n.objective /\ m.imbalance <= n.imbalance

\* C8: at every point during and after a call of refineImpl, best_metrics is
\* lexicographically no worse, as (objective, imbalance), than it was when
\* the call started; and when the call has returned, the objective of the
\* partition in the hypergraph is the objective recorded in best_metrics.
C8_BestMetricsNeverWorsen ==
    /\ noWorse(best_metrics, observed.call_best)
    /\ refiner.pc = "idle" /\ refiner.result # "none"
           => objective(hg) = best_metrics.objective

\* a call has returned true after a pass lowered the recorded objective
C8_Witness ==
    /\ refiner.pc = "idle"
    /\ refiner.result = "true"
    /\ best_metrics.objective < observed.call_best.objective

\* what a pass computed: the objective and the imbalance of the bipartition
\* minimumSTCut left, against best_metrics before the pass
passLowerObjective == objective(observed.pass.after) < observed.pass.best.objective
passEqualObjective == objective(observed.pass.after) = observed.pass.best.objective
passLowerImbalance == imbalance(observed.pass.after) < observed.pass.best.imbalance
passFeasible == imbalance(observed.pass.after) <= context.epsilon

\* a pass is over: the loop's condition has been evaluated behind it
passOver == refiner.pc \in {"loop", "exit"} /\ observed.pass # NoPass

\* C9, as the claim states it: after a flow pass the computed bipartition is
\* the partition of the hypergraph if its objective is lower than the best
\* recorded one, or equal to it with a lower imbalance; in every other case
\* the partition from before the pass is.
C9_CommittedWhenObjectiveLower ==
    passOver =>
        IF passLowerObjective \/ (passEqualObjective /\ passLowerImbalance)
        THEN hg = observed.pass.after
        ELSE hg = observed.pass.before

\* C9, as the code has it: after a flow pass the computed bipartition is the
\* partition of the hypergraph if its objective is lower than the best
\* recorded one and it is feasible (imbalance at most epsilon) or its
\* imbalance is lower than the best recorded one, or if its objective is
\* equal with a lower imbalance; in every other case the partition from
\* before the pass is.
C9_CommittedWhenAccepted ==
    passOver =>
        IF \/ passLowerObjective /\ (passFeasible \/ passLowerImbalance)
           \/ passEqualObjective /\ passLowerImbalance
        THEN hg = observed.pass.after
        ELSE hg = observed.pass.before

\* a pass is over that was committed and moved a hypernode
C9_Witness ==
    /\ passOver
    /\ hg = observed.pass.after
    /\ observed.pass.after.part # observed.pass.before.part

\* C10: minimumSTCut followed by rollback(false) leaves the partition as it
\* was: after a pass that is not taken every hypernode of the flow region
\* is in the block it had before the pass, and the block of every
\* hypernode, the weight of every block and the pin counts of every
\* hyperedge are what they were before minimumSTCut.
C10_RollbackRestoresPartition ==
    refiner.pc = "rolledback" /\ ~refiner.current_improvement =>
        /\ \A hn \in refiner.region : hg.part[hn] = observed.pass.before.part[hn]
        /\ hg.part = observed.pass.before.part
        /\ hg.part_weight = observed.pass.before.part_weight
        /\ hg.pins_in_part = observed.pass.before.pins_in_part

\* a pass that moved a hypernode has been rolled back
C10_Witness ==
    /\ refiner.pc = "rolledback"
    /\ ~refiner.current_improvement
    /\ observed.pass.after.part # observed.pass.before.part
    /\ hg.part = observed.pass.before.part


\* the call started from a partition within the balance bound, with the
\* imbalance of that partition recorded in best_metrics
calledBalanced ==
    /\ imbalance(partitioned(observed.call_part)) <= context.epsilon
    /\ observed.call_best.imbalance = imbalance(partitioned(observed.call_part))

\* C11: if the partition is within the balance bound when refineImpl is
\* called (imbalance at most epsilon, and best_metrics.imbalance is the
\* imbalance of the partition), the partition in the hypergraph when the call
\* returns is within the balance bound too.
C11_BalancePreserved ==
    refiner.pc = "idle" /\ refiner.result # "none" /\ calledBalanced
        => imbalance(hg) <= context.epsilon

\* a call from a balanced partition has returned with hypernodes moved
C11_Witness ==
    /\ refiner.pc = "idle"
    /\ refiner.result = "true"
    /\ calledBalanced
    /\ hg.part # observed.call_part


(***************************************************************************)
(* The adaptive flow iterations.                                           *)
(***************************************************************************)

\* a pass of the call has begun: its flow problem is built
passBegun == refiner.pc = "built"

\* C16 as stated: the first pass of a call runs at the configured alpha, and
\* after every pass that improved the next pass runs with alpha doubled.
C16_AlphaDoubledAfterImprovement ==
    passBegun =>
        /\ observed.last_alpha = 0 => refiner.alpha = context.alpha
        /\ observed.last_improved => refiner.alpha = 2 * observed.last_alpha

\* C16, corrected: the first pass of a call runs at the configured alpha; a
\* pass that follows an improving pass at the configured alpha runs at the
\* configured alpha again, one that follows an improving pass at another
\* alpha runs at twice that alpha, and one that follows a pass without
\* improvement at half its alpha.  No pass runs above the configured alpha.
C16_AlphaSchedule ==
    passBegun =>
        /\ observed.last_alpha = 0 => refiner.alpha = context.alpha
        /\ observed.last_improved =>
               refiner.alpha = IF observed.last_alpha = context.alpha
                               THEN context.alpha
                               ELSE 2 * observed.last_alpha
        /\ observed.last_alpha # 0 /\ ~observed.last_improved =>
               2 * refiner.alpha = observed.last_alpha
        /\ refiner.alpha <= context.alpha

\* a pass has begun after an improving pass at half the configured alpha
C16_Witness ==
    /\ passBegun
    /\ observed.last_improved
    /\ observed.last_alpha # context.alpha
    /\ refiner.alpha = context.alpha

\* a pass has begun after an improving pass at the configured alpha
passRepeatedAtConfiguredAlpha ==
    /\ passBegun
    /\ observed.last_improved
    /\ observed.last_alpha = context.alpha


\* the loop goes on after a pass: its condition held and no break was taken
loopGoesOn == refiner.pc = "loop" /\ observed.last_alpha # 0

loopGoesOnAfterUnchangedCut ==
    /\ context.use_adaptive_alpha_stopping_rule
    /\ loopGoesOn
    /\ refiner.improvement
    /\ ~observed.last_improved
    /\ observed.last_cut_unchanged


\* the weight of the hyperedges that the partition p cuts
cutWeight(p) ==
    sumOver(cutHyperedges(partitioned(p)), [he \in HEs |-> edgeWeight(he)])

\* the case of heuristic 1 for the partition p: the cut is small and the
\* hypergraph is not fully uncontracted
smallCutBelowTopLevel(p) ==
    /\ context.ignore_small_hyperedge_cut
    /\ cutWeight(p) <= SmallCutWeight
    /\ currentNumNodes(context) # initialNumNodes

\* C18: with ignore_small_hyperedge_cut, if the weight of the cut hyperedges
\* between the two blocks is at most 10 and the hypergraph is not fully
\* uncontracted, the refiner builds no flow problem and moves no hypernode;
\* on the top level the pair of blocks is never skipped for this reason.
C18_SmallCutSkipped ==
    /\ smallCutBelowTopLevel(observed.call_part) =>
           /\ refiner.pc \in {"idle", "loop"}
           /\ hg.part = observed.call_part
    /\ refiner.pc = "built" => ~smallCutBelowTopLevel(hg.part)
    /\ observed.small_cut_skip => currentNumNodes(context) # initialNumNodes

\* heuristic 1 has ended a call that the execution policy let run, on a
\* pair of blocks with hyperedges in the cut
C18_Witness ==
    /\ refiner.pc = "idle"
    /\ observed.small_cut_skip
    /\ smallCutBelowTopLevel(observed.call_part)
    /\ cutWeight(hg.part) > 0
    /\ refiner.result = "false"


\* the call has returned
returned == refiner.pc = "idle" /\ refiner.result # "none"

\* a pass of the call committed an improvement: acceptsCut takes a result
\* only when (objective, imbalance) is lexicographically lower, so
\* best_metrics differs from its value at the start of the call exactly
\* when a pass updated it
committedImprovement == best_metrics # observed.call_best

\* C32: refineImpl returns true exactly when a pass of the call committed
\* an improvement; when it returns false, best_metrics and the partition
\* are what they were when the call started.
C32_ReturnsTrueIffImproved ==
    returned =>
        /\ refiner.result = "true" <=> committedImprovement
        /\ refiner.result = "false" =>
               /\ best_metrics = observed.call_best
               /\ hg.part = observed.call_part

\* what holds instead: a call that heuristic 1 did not end returns
\* whether a pass committed an improvement, and a call that returns true
\* has changed best_metrics and the partition
returnsImprovementUnlessSkipped ==
    returned =>
        /\ ~observed.small_cut_skip =>
               /\ refiner.result = "true" <=> committedImprovement
               /\ refiner.result = "false" => hg.part = observed.call_part
        /\ refiner.result = "true" =>
               committedImprovement /\ hg.part # observed.call_part

\* heuristic 1 has ended a call after a pass that committed an improvement
skippedAfterImprovement ==
    /\ returned
    /\ observed.small_cut_skip
    /\ refiner.result = "false"
    /\ committedImprovement
    /\ hg.part # observed.call_part

\* C33: when refineImpl has built its own quotient graph, the graph is
\* deleted and _quotient_graph is null again when the call has returned,
\* whichever return was taken.
C33_OwnQuotientGraphDeleted ==
    returned => refiner.quotient_graph # "own"

\* what holds instead: the refiner's own quotient graph is deleted at every
\* return but the one of heuristic 1
ownQuotientGraphDeletedUnlessSkipped ==
    returned /\ ~observed.small_cut_skip => refiner.quotient_graph # "own"

\* heuristic 1 has ended a call that built its own quotient graph: the
\* graph is still there
ownQuotientGraphKept ==
    /\ returned
    /\ observed.small_cut_skip
    /\ refiner.quotient_graph = "own"


\* the refiners that build their own quotient graph, with no threshold of
\* the execution policy pending
InitFlowFair ==
    /\ InitFlow
    /\ refiner.levels = <<>>
    /\ refiner.quotient_graph = "none"

\* lines 541-544 on their own: the flow is trivial and the loop is left
TrivialFlow ==
    /\ refiner.pc = "built"
    /\ refiner' = [refiner EXCEPT !.region = {}, !.pc = "exit"]
    /\ observed' = [observed EXCEPT !.left = "trivial_flow"]
    /\ UNCHANGED <<hg, best_metrics, context, flow_others>>

\* refineImpl is sequential code: a call that can take a step takes it.
\* TrivialFlow is enabled exactly where MinimumSTCut is, and every step of
\* MinimumSTCut disables it, so its fairness is that of MinimumSTCut.
SpecFlowFair ==
    /\ InitFlowFair
    /\ [][NextFlow]_vars
    /\ WF_vars(BuildFlowProblem)
    /\ WF_vars(TrivialFlow)
    /\ WF_vars(Evaluate)
    /\ WF_vars(Rollback)
    /\ WF_vars(QuotientMoves)
    /\ WF_vars(Return)

\* a for the alpha 2^a
RECURSIVE log2(_)
log2(x) == IF x <= 1 THEN 0 ELSE 1 + log2(x \div 2)

\* m is lexicographically lower than n as (objective, imbalance)
lower(m, n) ==
    \/ m.objective < n.objective
    \/ m.objective = n.objective /\ m.imbalance < n.imbalance

\* every call of refineImpl returns
callReturns == refiner.pc # "idle" ~> refiner.pc = "idle"

\* the steps of a pass: the head of the loop halves alpha; a pass that
\* improves lowers best_metrics; one that does not leaves best_metrics and
\* the halved alpha as they are; nothing else changes alpha; and the loop
\* is left behind a pass that ends with alpha <= 1
stepOfPass ==
    /\ refiner.pc = "loop" /\ refiner'.pc \in {"built", "exit"}
           => 2 * refiner'.alpha = refiner.alpha
    /\ refiner.pc = "cut" /\ refiner'.pc = "evaluated"
           => IF refiner'.current_improvement
              THEN lower(best_metrics', best_metrics)
              ELSE best_metrics' = best_metrics
                   /\ refiner'.alpha = refiner.alpha
    /\ refiner.pc \in {"built", "evaluated", "rolledback"}
           => refiner'.alpha = refiner.alpha
    /\ refiner.pc = "rolledback" /\ refiner.alpha <= 1
           => refiner'.pc \in {"rolledback", "exit"}
    /\ refiner.pc = "rolledback" /\ refiner'.pc = "exit"
           => \/ refiner.alpha <= 1
              \/ observed'.left = "stopping_rule"

\* the loop is left without an improvement
leftWithoutImprovement == refiner.pc = "exit" /\ ~refiner.improvement

\* C39 as stated: the adaptive flow loop of refineImpl terminates; every
\* improving pass strictly decreases (objective, imbalance)
\* lexicographically, every non-improving pass halves alpha, and the loop is
\* left after the first pass that ends with alpha <= 1; a call in which no
\* pass improves and the stopping rule does not fire runs exactly a + 1
\* passes for the configured alpha 2^a.
C39_AdaptiveLoopTerminates ==
    /\ callReturns
    /\ [][stepOfPass]_vars
    /\ [](leftWithoutImprovement /\ observed.left # "stopping_rule"
              => observed.passes = log2(context.alpha) + 1)

\* C39, corrected: the adaptive flow loop of refineImpl terminates; every
\* improving pass strictly decreases (objective, imbalance)
\* lexicographically, every non-improving pass halves alpha, and the loop is
\* left after the first pass that ends with alpha <= 1.  A call in which no
\* pass improves runs at most a + 1 passes for the configured alpha 2^a, and
\* exactly a + 1 when no pass leaves the loop early: by heuristic 1 (small
\* cut), an empty cut, a trivial flow or the stopping rule of heuristic 2.
C39_AdaptiveLoopTerminatesOrIsLeftEarly ==
    /\ callReturns
    /\ [][stepOfPass]_vars
    /\ [](leftWithoutImprovement /\ observed.left = "condition"
              => observed.passes = log2(context.alpha) + 1)
    /\ [](refiner.pc # "idle" /\ ~refiner.improvement
              => observed.passes <= log2(context.alpha) + 1)

\* the loop is left by its condition after two passes without improvement,
\* the configured alpha being 2
C39_Witness ==
    /\ leftWithoutImprovement
    /\ observed.left = "condition"
    /\ context.alpha = 2
    /\ observed.passes = 2
    /\ refiner.alpha = 1

\* the loop is left in the first of the two passes: the cut is empty, or
\* the flow is trivial
leftInFirstPass ==
    /\ leftWithoutImprovement
    /\ observed.left \in {"empty_cut", "trivial_flow"}
    /\ context.alpha = 2
    /\ observed.passes = 1

\* a call with improving passes runs more than a + 1 passes
morePassesWithImprovement ==
    /\ refiner.pc = "exit"
    /\ refiner.improvement
    /\ observed.passes > log2(context.alpha) + 1

(***************************************************************************)
(* The flow network (the Lawler network of the network tests).  Its nodes  *)
(* are the hypernodes of the region and, for every hyperedge with a pin in *)
(* the region, an incoming and an outgoing node.  A pin reaches the        *)
(* incoming node of its hyperedge and is reached from the outgoing node    *)
(* over edges of infinite capacity; the incoming node reaches the outgoing *)
(* node over an edge of the capacity of the hyperedge's weight.  An        *)
(* incoming node is a source when its hyperedge has a pin of block 0       *)
(* outside the region, an outgoing node a sink when it has one of block 1. *)
(* Every edge has a reverse edge of capacity 0.                            *)
(***************************************************************************)
initialNumEdges == Cardinality(HEs)
mapToIncommingHyperedgeID(he) == initialNumNodes + he
mapToOutgoingHyperedgeID(he) == initialNumNodes + initialNumEdges + he

\* a capacity above every flow
INFTY == 1 + sumOver(HEs, [he \in HEs |-> edgeWeight(he)])

\* FlowNetwork::totalWeightHyperedges()
totalWeightHyperedges(net) ==
    sumOver(net.hyperedges, [he \in HEs |-> edgeWeight(he)])

\* the hypernodes, hyperedges, sources and sinks of the network of a region
networkOf(p, region) ==
    [hypernodes |-> region,
     hyperedges |-> networkHyperedges(region),
     sources |-> {mapToIncommingHyperedgeID(he) : he \in
                     {e \in networkHyperedges(region) :
                          \E pin \in pinsOf(e) \ region : p[pin] = block0}},
     sinks |-> {mapToOutgoingHyperedgeID(he) : he \in
                   {e \in networkHyperedges(region) :
                        \E pin \in pinsOf(e) \ region : p[pin] = block1}}]

\* FlowNetwork::nodes()
nodes(net) ==
    net.hypernodes
    \cup {mapToIncommingHyperedgeID(he) : he \in net.hyperedges}
    \cup {mapToOutgoingHyperedgeID(he) : he \in net.hyperedges}

isSource(net, u) == u \in net.sources
isSink(net, u) == u \in net.sinks
isHypernode(net, u) == u \in net.hypernodes

\* FlowEdge::capacity of the edge from u to v (0: a reverse edge, or none)
capacity(net, u, v) ==
    IF \E he \in net.hyperedges :
           u = mapToIncommingHyperedgeID(he) /\ v = mapToOutgoingHyperedgeID(he)
    THEN edgeWeight(CHOOSE he \in net.hyperedges :
                        u = mapToIncommingHyperedgeID(he))
    ELSE IF \E he \in net.hyperedges :
                \/ /\ u \in net.hypernodes \cap pinsOf(he)
                   /\ v = mapToIncommingHyperedgeID(he)
                \/ /\ u = mapToOutgoingHyperedgeID(he)
                   /\ v \in net.hypernodes \cap pinsOf(he)
         THEN INFTY
         ELSE 0

\* the edges of the network, each with its reverse edge
flowEdges(net) ==
    {e \in nodes(net) \X nodes(net) :
         capacity(net, e[1], e[2]) > 0 \/ capacity(net, e[2], e[1]) > 0}

\* the set S as a sequence in the order of the ids
RECURSIVE inOrder(_)
inOrder(S) ==
    IF S = {}
    THEN <<>>
    ELSE LET x == CHOOSE y \in S : \A z \in S : y <= z
         IN  <<x>> \o inOrder(S \ {x})

\* FlowNetwork::incidentEdges(u): the targets of the edges that leave u.
\* The network lists them in the order of the targets' ids.
incidentEdges(net, u) == inOrder({v \in nodes(net) : <<u, v>> \in flowEdges(net)})

\* FlowNetwork::addHypernode for every hypernode of the region, and build:
\* the network with the capacity of every edge and the edges of every node
buildNetwork(p, region) ==
    LET net == networkOf(p, region)
    IN  [hypernodes |-> net.hypernodes,
         hyperedges |-> net.hyperedges,
         sources |-> net.sources,
         sinks |-> net.sinks,
         capacity |-> [e \in flowEdges(net) |-> capacity(net, e[1], e[2])],
         incidentEdges |-> [u \in nodes(net) |-> incidentEdges(net, u)]]

\* FlowNetwork::residualCapacity
residualCapacity(net, flow, u, v) == net.capacity[<<u, v>>] - flow[<<u, v>>]

\* FlowNetwork::increaseFlow: the flow of the edge grows, that of its
\* reverse edge shrinks
increaseFlow(flow, u, v, f) ==
    [flow EXCEPT ![<<u, v>>] = @ + f, ![<<v, u>>] = @ - f]

\* the network without flow
noFlow(net) == [e \in DOMAIN net.capacity |-> 0]


(***************************************************************************)
(* MaximumFlow::bfs and augment, and EdmondKarp::maximumFlow.              *)
(***************************************************************************)

\* the targets v of the edges of u, in their order, that are not visited
\* and have residual capacity (lines 805-812)
RECURSIVE bfsTargets(_, _, _, _, _)
bfsTargets(net, flow, u, targets, visited) ==
    IF targets = <<>>
    THEN <<>>
    ELSE LET v == Head(targets)
         IN  IF v \notin visited /\ residualCapacity(net, flow, u, v) > 0
             THEN <<v>> \o bfsTargets(net, flow, u, Tail(targets),
                                      visited \cup {v})
             ELSE bfsTargets(net, flow, u, Tail(targets), visited)

\* the loop of lines 783-813: the queue Q, the visited nodes, the parent of
\* every node that has one, and whether a sink was taken from the queue
RECURSIVE bfsLoop(_, _, _, _, _, _)
bfsLoop(net, flow, Q, visited, parent, augmentingPathExists) ==
    IF Q = <<>>
    THEN [visited |-> visited, parent |-> parent,
          augmentingPathExists |-> augmentingPathExists]
    ELSE LET u == Head(Q)
         IN  IF isSink(net, u)
             THEN bfsLoop(net, flow, Tail(Q), visited, parent, TRUE)
             ELSE LET new == bfsTargets(net, flow, u, net.incidentEdges[u],
                                        visited)
                      found == {new[i] : i \in 1 .. Len(new)}
                  IN  bfsLoop(net, flow, Tail(Q) \o new, visited \cup found,
                              [v \in DOMAIN parent \cup found |->
                                  IF v \in found THEN u ELSE parent[v]],
                              augmentingPathExists)

\* MaximumFlow::bfs: the search starts from all sources, which have no parent
bfs(net, flow) ==
    bfsLoop(net, flow, inOrder(net.sources), net.sources, <<>>, FALSE)

\* the hypernodes that bfs<true>(block) moves to the block: the visited
\* hypernodes and the pins in the network of the visited outgoing nodes
assignedHypernodes(net, visited) ==
    (visited \cap net.hypernodes)
    \cup UNION {pinsOf(he) \cap net.hypernodes : he \in
                   {e \in net.hyperedges : mapToOutgoingHyperedgeID(e) \in visited}}

\* an augmentation that the residual capacities of the path do not bound
RECURSIVE augmentUnbounded(_, _, _, _, _)
augmentUnbounded(net, flow, parent, cur, minFlow) ==
    IF isSource(net, cur) \/ minFlow = 0
    THEN [f |-> minFlow, flow |-> flow]
    ELSE LET u == parent[cur]
             a == augmentUnbounded(net, flow, parent, u, minFlow)
         IN  [f |-> a.f, flow |-> increaseFlow(a.flow, u, cur, a.f)]

\* an augmentation that only the residual capacity of the last edge of
\* the path bounds
RECURSIVE augmentByLastEdge(_, _, _, _, _)
augmentByLastEdge(net, flow, parent, cur, minFlow) ==
    IF isSource(net, cur) \/ minFlow = 0
    THEN [f |-> minFlow, flow |-> flow]
    ELSE LET u == parent[cur]
             r == residualCapacity(net, flow, u, cur)
             a == augmentByLastEdge(net, flow, parent, u,
                                    IF minFlow = INFTY THEN r ELSE minFlow)
         IN  [f |-> a.f, flow |-> increaseFlow(a.flow, u, cur, a.f)]

\* MaximumFlow::augment(cur, minFlow): the flow pushed along the parents
\* from cur back to a source, and the flow of the network afterwards
RECURSIVE augment(_, _, _, _, _)
augment(net, flow, parent, cur, minFlow) ==
    IF isSource(net, cur) \/ minFlow = 0
    THEN [f |-> minFlow, flow |-> flow]
    ELSE LET u == parent[cur]
             r == residualCapacity(net, flow, u, cur)
             a == augment(net, flow, parent, u,
                          IF minFlow < r THEN minFlow ELSE r)
         IN  [f |-> a.f, flow |-> increaseFlow(a.flow, u, cur, a.f)]

\* lines 901-905: the flow is augmented to every sink that has a parent
RECURSIVE augmentSinks(_, _, _, _, _)
augmentSinks(net, flow, parent, sinks, maxFlow) ==
    IF sinks = <<>>
    THEN [maxFlow |-> maxFlow, flow |-> flow]
    ELSE LET t == Head(sinks)
         IN  IF t \in DOMAIN parent
             THEN LET a == augment(net, flow, parent, t, INFTY)
                  IN  augmentSinks(net, a.flow, parent, Tail(sinks),
                                   maxFlow + a.f)
             ELSE augmentSinks(net, flow, parent, Tail(sinks), maxFlow)


(***************************************************************************)
(* GoldbergTarjan: the push-relabel algorithm.  Its state g holds the flow *)
(* of the network, _num_nodes, _excess, _distance, _count, the set of the  *)
(* nodes that are _active, _edgeIterator (the position of every node in    *)
(* its incident edges), the queue _q, _work and maxFlow.                   *)
(***************************************************************************)

\* FlowNetwork::numNodes()
numNodes(net) == Cardinality(nodes(net))

\* GoldbergTarjan::updateDistance (lines 1093-1102)
updateDistance(g, u, value) ==
    LET old_value == g.distance[u]
        dropped == IF old_value < g.num_nodes
                   THEN [g.count EXCEPT ![old_value] = @ - 1]
                   ELSE g.count
        counted == IF value < g.num_nodes
                   THEN [dropped EXCEPT ![value] = @ + 1]
                   ELSE dropped
    IN  [g EXCEPT !.count = counted, !.distance[u] = value]

\* GoldbergTarjan::enqueue (lines 1120-1126)
enqueue(g, u) ==
    IF u \in g.active
    THEN g
    ELSE IF g.excess[u] > 0
         THEN [g EXCEPT !.active = @ \cup {u}, !.q = Append(@, u)]
         ELSE g

\* a push that does not ask the two distances to differ by one
pushDownhillOrNot(net, g, u, v) ==
    LET r == residualCapacity(net, g.flow, u, v)
        delta == IF g.excess[u] < r THEN g.excess[u] ELSE r
    IN  IF delta = 0
        THEN g
        ELSE enqueue([g EXCEPT !.excess[u] = @ - delta,
                               !.excess[v] = @ + delta,
                               !.flow = increaseFlow(@, u, v, delta)], v)

\* GoldbergTarjan::push (lines 1034-1053)
push(net, g, u, v) ==
    LET r == residualCapacity(net, g.flow, u, v)
        delta == IF g.excess[u] < r THEN g.excess[u] ELSE r
    IN  IF g.distance[u] # g.distance[v] + 1 \/ delta = 0
        THEN g
        ELSE enqueue([g EXCEPT !.excess[u] = @ - delta,
                               !.excess[v] = @ + delta,
                               !.flow = increaseFlow(@, u, v, delta)], v)

\* lines 1020-1028: the initial pushes over the edges of a source that is a
\* hypernode
RECURSIVE initialPushes(_, _, _, _, _)
initialPushes(net, g, s, targets, initialInfinity) ==
    IF targets = <<>>
    THEN g
    ELSE LET target == Head(targets)
             r == residualCapacity(net, g.flow, s, target)
             initialPush == IF initialInfinity < r THEN initialInfinity ELSE r
         IN  IF r # 0
             THEN initialPushes(
                      net,
                      enqueue([g EXCEPT !.excess[target] = @ + initialPush,
                                        !.flow = increaseFlow(@, s, target,
                                                              initialPush)],
                              target),
                      s, Tail(targets), initialInfinity)
             ELSE initialPushes(net, g, s, Tail(targets), initialInfinity)

\* lines 1015-1031: the loop of init over the sources
RECURSIVE initSources(_, _, _, _)
initSources(net, g, sources, initialInfinity) ==
    IF sources = <<>>
    THEN g
    ELSE LET s == Head(sources)
             g1 == [g EXCEPT !.excess[s] = initialInfinity]
             g2 == IF isHypernode(net, s)
                   THEN initialPushes(
                            net,
                            updateDistance([g1 EXCEPT !.excess[s] = 0], s,
                                           g.num_nodes + 1),
                            s, net.incidentEdges[s], initialInfinity)
                   ELSE g1
         IN  initSources(net, enqueue(g2, s), Tail(sources), initialInfinity)

\* GoldbergTarjan::init (lines 999-1032), with _num_nodes of line 953
init(net, flow) ==
    initSources(
        net,
        [flow |-> flow,
         num_nodes |-> numNodes(net) + 2,
         excess |-> [u \in nodes(net) |-> 0],
         distance |-> [u \in nodes(net) |-> 0],
         count |-> [d \in 0 .. numNodes(net) + 1 |->
                       IF d = 0 THEN numNodes(net) + 1 ELSE 0],
         active |-> {},
         edgeIterator |-> [u \in nodes(net) |-> 1],
         q |-> <<>>,
         work |-> 0,
         maxFlow |-> 0],
        inOrder(net.sources), totalWeightHyperedges(net))

\* lines 1068-1072: the sinks get distance 1
RECURSIVE relabelSinks(_, _)
relabelSinks(g, sinks) ==
    IF sinks = <<>>
    THEN g
    ELSE relabelSinks(updateDistance(g, Head(sinks), 1), Tail(sinks))

\* lines 1079-1087: the targets of the edges of node that are reached over
\* the reverse edge; r holds the state, the queue _Q and the visited nodes
RECURSIVE relabelTargets(_, _, _, _)
relabelTargets(net, r, node, targets) ==
    IF targets = <<>>
    THEN r
    ELSE LET target == Head(targets)
         IN  IF /\ target \notin r.visited
                /\ residualCapacity(net, r.g.flow, target, node) # 0
                /\ ~isSource(net, target)
             THEN relabelTargets(
                      net,
                      [g |-> updateDistance(r.g, target,
                                            r.g.distance[node] + 1),
                       Q |-> Append(r.Q, target),
                       visited |-> r.visited \cup {target}],
                      node, Tail(targets))
             ELSE relabelTargets(net, r, node, Tail(targets))

\* lines 1074-1088: the breadth-first search from the sinks
RECURSIVE relabelLoop(_, _)
relabelLoop(net, r) ==
    IF r.Q = <<>>
    THEN r.g
    ELSE LET node == Head(r.Q)
         IN  relabelLoop(
                 net,
                 relabelTargets(
                     net,
                     [g |-> [r.g EXCEPT !.edgeIterator[node] = 1],
                      Q |-> Tail(r.Q),
                      visited |-> r.visited],
                     node, net.incidentEdges[node]))

\* GoldbergTarjan::global_relabeling (lines 1064-1091)
global_relabeling(net, g) ==
    relabelLoop(net, [g |-> relabelSinks(g, inOrder(net.sinks)),
                      Q |-> inOrder(net.sinks),
                      visited |-> net.sinks])

\* GoldbergTarjan::gap_heurisitc (lines 1055-1062), over the nodes left
RECURSIVE gap_heurisitc(_, _, _)
gap_heurisitc(g, left, distance) ==
    IF left = <<>>
    THEN g
    ELSE LET node == Head(left)
             node_dist == g.distance[node]
         IN  IF node_dist < distance \/ node_dist >= g.num_nodes
             THEN gap_heurisitc(g, Tail(left), distance)
             ELSE gap_heurisitc(
                      enqueue(updateDistance(g, node, g.num_nodes), node),
                      Tail(left), distance)

\* the smallest of the distances of the targets of the edges of u with
\* residual capacity; -1 stands for INVALID_NODE, the largest NodeID
RECURSIVE minLabel(_, _, _, _, _)
minLabel(net, g, u, targets, label) ==
    IF targets = <<>>
    THEN label
    ELSE LET v == Head(targets)
         IN  IF /\ residualCapacity(net, g.flow, u, v) # 0
                /\ (label = -1 \/ g.distance[v] < label)
             THEN minLabel(net, g, u, Tail(targets), g.distance[v])
             ELSE minLabel(net, g, u, Tail(targets), label)

\* GoldbergTarjan::relabel (lines 1104-1118); INVALID_NODE + 1 wraps to 0
relabel(net, g, u) ==
    IF isSink(net, u)
    THEN updateDistance(g, u, 1)
    ELSE LET label == minLabel(net, g, u, net.incidentEdges[u],
                               IF isSource(net, u)
                               THEN g.num_nodes
                               ELSE -1)
         IN  updateDistance(g, u, IF label = -1 THEN 0 ELSE label + 1)

\* lines 1130-1137: the pushes over the edges of u from its position on,
\* until its excess is gone or its edges are
RECURSIVE dischargeEdges(_, _, _)
dischargeEdges(net, g, u) ==
    IF g.edgeIterator[u] > Len(net.incidentEdges[u])
    THEN g
    ELSE LET v == net.incidentEdges[u][g.edgeIterator[u]]
             pushed == IF residualCapacity(net, g.flow, u, v) # 0
                       THEN push(net, g, u, v)
                       ELSE g
         IN  IF pushed.excess[u] = 0
             THEN pushed
             ELSE dischargeEdges(
                      net, [pushed EXCEPT !.edgeIterator[u] = @ + 1], u)

\* GoldbergTarjan::discharge (lines 1128-1153)
RECURSIVE discharge(_, _, _)
discharge(net, g, u) ==
    IF g.excess[u] <= 0
    THEN g
    ELSE LET g1 == dischargeEdges(net, g, u)
             cur_dist == g1.distance[u]
             g2 == IF g1.edgeIterator[u] > Len(net.incidentEdges[u])
                   THEN [(IF cur_dist < g1.num_nodes /\ g1.count[cur_dist] = 1
                          THEN gap_heurisitc(g1, inOrder(nodes(net)), cur_dist)
                          ELSE relabel(net, g1, u))
                            EXCEPT !.edgeIterator[u] = 1]
                   ELSE g1
             g3 == IF isSource(net, u) /\ g2.distance[u] = g2.num_nodes + 1
                   THEN [g2 EXCEPT !.excess[u] = 0]
                   ELSE g2
         IN  discharge(net, g3, u)

\* lines 959-976: one round of the loop of GoldbergTarjan::maximumFlow
maximumFlowRound(net, g) ==
    LET cur == Head(g.q)
        g1 == [g EXCEPT !.active = @ \ {cur}, !.q = Tail(@)]
        g2 == IF isSource(net, cur) /\ g1.distance[cur] = g1.num_nodes + 1
              THEN [g1 EXCEPT !.excess[cur] = 0]
              ELSE IF isSink(net, cur) /\ g1.distance[cur] = 1
                   THEN [g1 EXCEPT !.maxFlow = @ + g1.excess[cur],
                                   !.excess[cur] = 0]
                   ELSE discharge(net, g1, cur)
        g3 == [g2 EXCEPT !.work = @ + 1]
    IN  IF g3.work > g3.num_nodes
        THEN [global_relabeling(net, g3) EXCEPT !.work = 0]
        ELSE g3

\* EdmondKarp::maximumFlow (lines 898-909) from a flow on: the value of the
\* maximum flow and the flow of the network
RECURSIVE maximumFlowEdmondKarp(_, _, _)
maximumFlowEdmondKarp(net, flow, maxFlow) ==
    LET b == bfs(net, flow)
    IN  IF b.augmentingPathExists
        THEN LET a == augmentSinks(net, flow, b.parent, inOrder(net.sinks),
                                   maxFlow)
             IN  maximumFlowEdmondKarp(net, a.flow, a.maxFlow)
        ELSE [maxFlow |-> maxFlow, flow |-> flow]


(***************************************************************************)
(* MaximumFlow::minimumSTCut on the flow problem of a region, with the     *)
(* maximum flow computed step by step.  solver.pc is "built" with the      *)
(* network built, "flow" while the algorithm runs, "cut" when              *)
(* maximumFlow() has returned, "done" when minimumSTCut has.               *)
(***************************************************************************)

\* lines 730-734: every hypernode of the network goes to the default block
StartMinimumSTCut ==
    /\ solver.pc = "built"
    /\ LET defaultPart == IF solver.use_most_balanced_minimum_cut
                          THEN block0
                          ELSE block1
       IN  hg' = moveHypernodes(hg, solver.net.hypernodes,
                                [hn \in HNs |-> defaultPart])
    /\ solver' = [solver EXCEPT !.pc = "flow"]
    /\ UNCHANGED <<solver_others, best_metrics, refiner, context, observed>>

\* EdmondKarp::maximumFlow, one round of its loop: a breadth-first search
\* and the augmentations along the paths it found
EdmondKarpRound ==
    /\ solver.pc = "flow"
    /\ solver.algorithm = "EdmondKarp"
    /\ LET b == bfs(solver.net, solver.flow)
       IN  IF b.augmentingPathExists
           THEN LET a == augmentSinks(solver.net, solver.flow, b.parent,
                                      inOrder(solver.net.sinks), solver.maxFlow)
                IN  solver' = [solver EXCEPT !.flow = a.flow,
                                             !.maxFlow = a.maxFlow,
                                             !.rounds = @ + 1]
           ELSE solver' = [solver EXCEPT !.pc = "cut"]
    /\ UNCHANGED <<solver_others, flow_vars>>

\* GoldbergTarjan::maximumFlow, lines 953-957: init and the first global
\* relabeling
GoldbergTarjanInit ==
    /\ solver.pc = "flow"
    /\ solver.algorithm = "GoldbergTarjan"
    /\ solver.gt = NoFlow
    /\ solver' = [solver EXCEPT
                      !.gt = global_relabeling(solver.net,
                                               init(solver.net, solver.flow))]
    /\ UNCHANGED <<solver_others, flow_vars>>

\* GoldbergTarjan::maximumFlow, lines 958-990: one round of the loop, or
\* the return with the queue empty
GoldbergTarjanRound ==
    /\ solver.pc = "flow"
    /\ solver.algorithm = "GoldbergTarjan"
    /\ solver.gt # NoFlow
    /\ IF solver.gt.q # <<>>
       THEN LET g == maximumFlowRound(solver.net, solver.gt)
            IN  solver' = [solver EXCEPT !.gt = g,
                                         !.flow = g.flow,
                                         !.maxFlow = g.maxFlow,
                                         !.rounds = @ + 1]
       ELSE solver' = [solver EXCEPT !.pc = "cut"]
    /\ UNCHANGED <<solver_others, flow_vars>>

\* lines 742-747: the hypernodes are assigned to the sides of a minimum cut.
\* bfs<true> moves what the sources reach in the residual network to block
\* 0; mostBalancedMinimumCut picks one of the minimum cuts.
AssignMinimumCut ==
    /\ solver.pc = "cut"
    /\ IF solver.use_most_balanced_minimum_cut
       THEN \E a \in minimumCuts(solver.before, solver.net.hypernodes) :
                hg' = moveHypernodes(hg, solver.net.hypernodes, a)
       ELSE LET b == bfs(solver.net, solver.flow)
            IN  hg' = moveHypernodes(
                          hg, assignedHypernodes(solver.net, b.visited),
                          [hn \in HNs |-> block0])
    /\ solver' = [solver EXCEPT !.pc = "done"]
    /\ UNCHANGED <<solver_others, best_metrics, refiner, context, observed>>

\* the flow problems: every partition, every region that is not empty
InitMaxFlow ==
    /\ hg \in {partitioned(p) : p \in [HNs -> Blocks]}
    /\ \E region \in SUBSET HNs \ {{}},
          algorithm \in {"EdmondKarp", "GoldbergTarjan"},
          use_most_balanced_minimum_cut \in BOOLEAN :
           solver = [pc |-> "built",
                     algorithm |-> algorithm,
                     use_most_balanced_minimum_cut |->
                         use_most_balanced_minimum_cut,
                     net |-> buildNetwork(hg.part, region),
                     before |-> hg,
                     cut_flow_network_before |-> build(hg, region),
                     flow |-> noFlow(buildNetwork(hg.part, region)),
                     gt |-> NoFlow,
                     maxFlow |-> 0,
                     rounds |-> 0]
    /\ pq = NewQueue(FALSE)
    /\ ret = [op |-> "init"]
    /\ best_metrics = NoFlow
    /\ refiner = NoFlow
    /\ context = NoFlow
    /\ observed = NoFlow
    /\ policy = NoFlow
    /\ runs = NoFlow
    /\ fm = NoFlow
    /\ driver = NoFlow
    /\ evo = NoFlow
    /\ extractor = NoFlow

NextMaxFlow ==
    \/ StartMinimumSTCut
    \/ EdmondKarpRound
    \/ GoldbergTarjanInit
    \/ GoldbergTarjanRound
    \/ AssignMinimumCut

SpecMaxFlow == InitMaxFlow /\ [][NextMaxFlow]_vars

\* C12: after minimumSTCut with use_most_balanced_minimum_cut the weight of
\* the hyperedges of the flow network that the resulting assignment cuts
\* between the two blocks is the value of the maximum flow returned, and the
\* objective of the partition is the objective before minus
\* (cut_flow_network_before - flow value).
C12_CutEqualsFlowValue ==
    solver.pc = "done" /\ solver.use_most_balanced_minimum_cut =>
        /\ networkCut(hg.part, solver.net.hypernodes) = solver.maxFlow
        /\ objective(hg) = objective(solver.before)
                           - (solver.cut_flow_network_before - solver.maxFlow)

\* the same of the cut that bfs<true> assigns
bfsCutEqualsFlowValue ==
    solver.pc = "done" /\ ~solver.use_most_balanced_minimum_cut =>
        /\ networkCut(hg.part, solver.net.hypernodes) = solver.maxFlow
        /\ objective(hg) = objective(solver.before)
                           - (solver.cut_flow_network_before - solver.maxFlow)

\* a minimum cut of positive weight below that of the cut before
C12_Witness ==
    /\ solver.pc = "done"
    /\ solver.use_most_balanced_minimum_cut
    /\ solver.maxFlow > 0
    /\ solver.maxFlow < solver.cut_flow_network_before
    /\ hg.part # solver.before.part

C14_SecondCallChangesNothing ==
    refiner.pc = "idle" /\ observed.second =>
        /\ hg.part = observed.call_part
        /\ best_metrics = observed.call_best


\* the edges of the path that the parents give from a source to cur
RECURSIVE pathEdges(_, _, _)
pathEdges(net, parent, cur) ==
    IF isSource(net, cur)
    THEN {}
    ELSE {<<parent[cur], cur>>} \cup pathEdges(net, parent, parent[cur])

\* the sinks that the search gave a parent
sinksReached(net, parent) == net.sinks \cap DOMAIN parent

\* lines 901-905, augmentation by augmentation: none pushes more than the
\* residual capacity that an edge of its path has when it starts
RECURSIVE augmentsWithinResidual(_, _, _, _)
augmentsWithinResidual(net, flow, parent, sinks) ==
    IF sinks = <<>>
    THEN TRUE
    ELSE LET t == Head(sinks)
         IN  IF t \in DOMAIN parent
             THEN LET a == augment(net, flow, parent, t, INFTY)
                  IN  /\ a.f >= 0
                      /\ \A e \in pathEdges(net, parent, t) :
                             a.f <= net.capacity[e] - flow[e]
                      /\ augmentsWithinResidual(net, a.flow, parent,
                                                Tail(sinks))
             ELSE augmentsWithinResidual(net, flow, parent, Tail(sinks))

\* EdmondKarp::maximumFlow is running
runsEdmondKarp == solver.pc = "flow" /\ solver.algorithm = "EdmondKarp"

\* a round of EdmondKarp::maximumFlow in which bfs() found a sink
roundOfEdmondKarp == runsEdmondKarp /\ solver'.rounds = solver.rounds + 1

\* C40: EdmondKarp::maximumFlow terminates on every flow network with
\* non-negative integer capacities: every round in which bfs() finds a sink
\* increases the total flow by at least one, also when several sinks are
\* augmented after one search and their paths share edges, and no augment
\* pushes more than the residual capacity of an edge of its path.  The
\* flow is bounded by the weight of the hyperedges of the network, so the
\* rounds are: the loop is left after at most that many.
C40_EdmondKarpTerminates ==
    /\ [][roundOfEdmondKarp =>
              /\ solver'.maxFlow >= solver.maxFlow + 1
              /\ augmentsWithinResidual(
                     solver.net, solver.flow,
                     bfs(solver.net, solver.flow).parent,
                     inOrder(solver.net.sinks))]_vars
    /\ [](solver.algorithm = "EdmondKarp" =>
              /\ solver.rounds <= solver.maxFlow
              /\ solver.maxFlow <= totalWeightHyperedges(solver.net)
              /\ \A e \in DOMAIN solver.flow :
                     solver.flow[e] <= solver.net.capacity[e])

\* the paths that the first search of the network found to t1 and t2
\* share an edge
sharePath(t1, t2) ==
    LET parent == bfs(solver.net, noFlow(solver.net)).parent
    IN  /\ t1 # t2
        /\ {t1, t2} \subseteq sinksReached(solver.net, parent)
        /\ pathEdges(solver.net, parent, t1)
               \cap pathEdges(solver.net, parent, t2) # {}

\* the flow that the first round pushes to the sink t
pushedInFirstRound(t) ==
    LET net == solver.net
        parent == bfs(net, noFlow(net)).parent
        before == augmentSinks(
                      net, noFlow(net), parent,
                      inOrder({s \in net.sinks : s < t}), 0)
    IN  augment(net, before.flow, parent, t, INFTY).f

\* EdmondKarp::maximumFlow has returned; its first round augmented two
\* sinks over paths that share an edge, and pushed flow to the one and
\* none to the other, whose path the first had saturated
C40_Witness ==
    /\ solver.pc = "cut"
    /\ solver.algorithm = "EdmondKarp"
    /\ solver.rounds >= 1
    /\ \E t1, t2 \in solver.net.sinks :
           /\ sharePath(t1, t2)
           /\ pushedInFirstRound(t1) > 0
           /\ pushedInFirstRound(t2) = 0

\* the first round pushed flow to two sinks over paths that share an edge
sharedPathsBothAugmented ==
    /\ solver.pc = "cut"
    /\ solver.algorithm = "EdmondKarp"
    /\ \E t1, t2 \in solver.net.sinks :
           /\ sharePath(t1, t2)
           /\ pushedInFirstRound(t1) > 0
           /\ pushedInFirstRound(t2) > 0

\* EdmondKarp::maximumFlow has returned after more than one round
severalRounds ==
    /\ solver.pc = "cut"
    /\ solver.algorithm = "EdmondKarp"
    /\ solver.rounds >= 2


(***************************************************************************)
(* The random choices of a run of the partitioner.  Randomize is the       *)
(* seeded generator of the program; the model's generator is a linear      *)
(* congruential one.  std::random_shuffle without a generator draws from   *)
(* the source of the C++ library, which Randomize::setSeed does not touch: *)
(* its state is what the process left in it.  Two runs with the same seed, *)
(* input and configuration are followed side by side; each makes its       *)
(* choices in the order of Program.                                        *)
(***************************************************************************)
Runs == {1, 2}
Seeds == {1, 2, 3}
Sources == {0, 1, 2}

\* the choices of a run, in their order: the decision of the evolutionary
\* algorithm, the tie of the priority queue, the shuffles of the cut
\* hyperedges in the flow refiner and in the extractor
Program == <<"decideNextMove", "maxIndexRandomTieBreaking",
             "refineImpl", "FlowHypergraphExtractor">>

\* the step of a generator from one state to the next
nextRandom(g) == (5 * g + 3) % 16

\* Randomize::setSeed
setSeed(seed) == seed % 16

\* Randomize::getRandomInt(low, high): the number drawn and the generator
\* after it
getRandomInt(g, low, high) ==
    [value |-> low + (nextRandom(g) % (high - low + 1)),
     generator |-> nextRandom(g)]

\* the sequence with the elements at i and j swapped
iter_swap(seq, i, j) ==
    [seq EXCEPT ![i] = seq[j], ![j] = seq[i]]

\* std::shuffle(first, last, g) from position i on: every element is
\* swapped with one drawn among those up to it
RECURSIVE shuffleFrom(_, _, _)
shuffleFrom(seq, g, i) ==
    IF i > Len(seq)
    THEN [seq |-> seq, generator |-> g]
    ELSE LET r == getRandomInt(g, 1, i)
         IN  shuffleFrom(iter_swap(seq, i, r.value), r.generator, i + 1)

\* std::shuffle(first, last, g)
shuffle(seq, g) == shuffleFrom(seq, g, 2)

\* std::random_shuffle(first, last): the same permutation steps, drawn from
\* the source of the library
random_shuffle(seq, source) == shuffleFrom(seq, source, 2)

\* the cut hyperedges that are shuffled, the queues that tie and the
\* mutation chance in tenths: the input and the configuration of both runs
cut_hyperedges == <<0, 1, 2>>
ties == <<0, 1>>
mutation_chance == 5

\* the choice that is made at a position of the program, and the run after it
choose(run) ==
    LET at == Program[run.pc]
    IN  IF at = "decideNextMove"
        THEN LET r == getRandomInt(run.generator, 0, 9)
             IN  [run EXCEPT !.generator = r.generator,
                             !.choices = Append(@, IF r.value < mutation_chance
                                                   THEN "mutation"
                                                   ELSE "combine"),
                             !.pc = @ + 1]
        ELSE IF at = "maxIndexRandomTieBreaking"
        THEN LET r == getRandomInt(run.generator, 0, Len(ties) - 1)
             IN  [run EXCEPT !.generator = r.generator,
                             !.choices = Append(@, ties[r.value + 1]),
                             !.pc = @ + 1]
        ELSE IF at = "refineImpl"
        THEN LET r == random_shuffle(cut_hyperedges, run.source)
             IN  [run EXCEPT !.source = r.generator,
                             !.choices = Append(@, r.seq),
                             !.pc = @ + 1]
        ELSE LET r == shuffle(cut_hyperedges, run.generator)
             IN  [run EXCEPT !.generator = r.generator,
                             !.choices = Append(@, r.seq),
                             !.pc = @ + 1]

\* kahypar_timelimit.cc, line 59: the run seeds the generator
SetSeed ==
    \E r \in Runs :
        /\ runs[r].pc = 0
        /\ runs' = [runs EXCEPT ![r].generator = setSeed(runs[r].seed),
                                ![r].pc = 1]
        /\ UNCHANGED random_others

\* evo_partitioner.h, line 141
DecideNextMove ==
    \E r \in Runs :
        /\ runs[r].pc \in 1 .. Len(Program)
        /\ Program[runs[r].pc] = "decideNextMove"
        /\ runs' = [runs EXCEPT ![r] = choose(runs[r])]
        /\ UNCHANGED random_others

\* KWayPriorityQueue::maxIndexRandomTieBreaking, line 335
RandomTieBreaking ==
    \E r \in Runs :
        /\ runs[r].pc \in 1 .. Len(Program)
        /\ Program[runs[r].pc] = "maxIndexRandomTieBreaking"
        /\ runs' = [runs EXCEPT ![r] = choose(runs[r])]
        /\ UNCHANGED random_others

\* TwoWayFlowRefiner::refineImpl, line 524
ShuffleCutHyperedges ==
    \E r \in Runs :
        /\ runs[r].pc \in 1 .. Len(Program)
        /\ Program[runs[r].pc] = "refineImpl"
        /\ runs' = [runs EXCEPT ![r] = choose(runs[r])]
        /\ UNCHANGED random_others

\* FlowHypergraphExtractor, line 198
ExtractorShuffle ==
    \E r \in Runs :
        /\ runs[r].pc \in 1 .. Len(Program)
        /\ Program[runs[r].pc] = "FlowHypergraphExtractor"
        /\ runs' = [runs EXCEPT ![r] = choose(runs[r])]
        /\ UNCHANGED random_others

\* two runs with the same seed; the source of the library is in the state
\* the process of each run left it in
InitRandom ==
    /\ \E seed \in Seeds :
           runs \in [Runs -> [pc : {0},
                              seed : {seed},
                              generator : {0},
                              source : Sources,
                              choices : {<<>>}]]
    /\ pq = NewQueue(FALSE)
    /\ ret = [op |-> "init"]
    /\ hg = NoFlow
    /\ best_metrics = NoFlow
    /\ refiner = NoFlow
    /\ context = NoFlow
    /\ observed = NoFlow
    /\ solver = NoFlow
    /\ policy = NoFlow
    /\ fm = NoFlow
    /\ driver = NoFlow
    /\ evo = NoFlow
    /\ extractor = NoFlow

NextRandom ==
    \/ SetSeed
    \/ DecideNextMove
    \/ RandomTieBreaking
    \/ ShuffleCutHyperedges
    \/ ExtractorShuffle

SpecRandom == InitRandom /\ [][NextRandom]_vars

\* C15: every random choice of a run is drawn from the generator that the
\* seed initialises, so that two runs with the same seed, input and
\* configuration make the same choices.
C15_SameSeedSameChoices ==
    (\A r \in Runs : runs[r].pc > Len(Program)) =>
        runs[1].choices = runs[2].choices

\* the choices that are drawn from Randomize are the same in both runs
seededChoicesAgree ==
    \A i \in 1 .. Len(Program) :
        /\ Program[i] # "refineImpl"
        /\ \A r \in Runs : Len(runs[r].choices) >= i
        => runs[1].choices[i] = runs[2].choices[i]


(***************************************************************************)
(* The flow execution policies.  A hypergraph of initialNumNodes           *)
(* hypernodes is coarsened to currentNumNodes hypernodes; the policy is    *)
(* initialized there, and every level of the uncoarsening uncontracts one  *)
(* hypernode and calls executeFlow once.  policy.level counts the          *)
(* hypernodes uncontracted since initialize, policy.executed holds the     *)
(* levels on which executeFlow returned true.                              *)
(***************************************************************************)
\* the largest hypergraph and the largest beta of the model
MaxNumNodes == 9
MaxBeta == 3

\* std::pow(2, i)
RECURSIVE pow2(_)
pow2(i) == IF i = 0 THEN 1 ELSE 2 * pow2(i - 1)

\* std::reverse
RECURSIVE reverse(_)
reverse(seq) ==
    IF seq = <<>> THEN <<>> ELSE Append(reverse(Tail(seq)), Head(seq))

\* lines 64-69: the levels from cur_execution_level on, beta apart, below
\* the initial number of hypernodes
RECURSIVE constantLevels(_, _, _)
constantLevels(cur_execution_level, initial, beta) ==
    IF cur_execution_level < initial
    THEN <<cur_execution_level>>
         \o constantLevels(cur_execution_level + beta, initial, beta)
    ELSE <<>>

\* levels that are the multiples of beta above the number of hypernodes at
\* initialize, and no level for the last
initializeMultiplesOfBeta(current, initial, beta) ==
    reverse(constantLevels(current + beta, initial + 1, beta))

\* ConstantFlowExecution::initialize (lines 61-74)
initializeConstant(current, initial, beta) ==
    reverse(Append(constantLevels(current + 1, initial, beta), initial))

\* lines 106-108: the levels currentNumNodes + 2^i, from i on, below the
\* initial number of hypernodes
RECURSIVE exponentialLevels(_, _, _)
exponentialLevels(current, initial, i) ==
    IF current + pow2(i) < initial
    THEN <<current + pow2(i)>> \o exponentialLevels(current, initial, i + 1)
    ELSE <<>>

\* levels that are the powers of two above the number of hypernodes at
\* initialize, and no level for the last
initializePowersOfTwo(current, initial) ==
    reverse(exponentialLevels(current, initial + 1, 0))

\* ExponentialFlowExecution::initialize (lines 104-114)
initializeExponential(current, initial) ==
    reverse(Append(exponentialLevels(current, initial, 0), initial))

\* lines 87-89: the levels initialNumNodes / 2^i, from i on, that are no
\* less than the number of hypernodes at initialize.  The quotient is a
\* double that the vector takes as an integer, its fraction cut off.
RECURSIVE multilevelLevels(_, _, _)
multilevelLevels(current, initial, i) ==
    IF initial >= current * pow2(i)
    THEN <<initial \div pow2(i)>> \o multilevelLevels(current, initial, i + 1)
    ELSE <<>>

\* levels in the order the other policies keep them, the largest at the back
initializeMultilevelReversed(current, initial) ==
    reverse(multilevelLevels(current, initial, 0))

\* MultilevelFlowExecution::initialize (lines 85-93)
initializeMultilevel(current, initial) ==
    multilevelLevels(current, initial, 0)

\* the elements of a sequence
elements(seq) == {seq[i] : i \in 1 .. Len(seq)}

\* initialize of the policy on the coarsest hypergraph
Initialize ==
    /\ policy.pc = "new"
    /\ LET levels == IF policy.kind = "constant"
                     THEN initializeConstant(policy.currentNumNodes,
                                             policy.initialNumNodes,
                                             policy.beta)
                     ELSE IF policy.kind = "exponential"
                     THEN initializeExponential(policy.currentNumNodes,
                                                policy.initialNumNodes)
                     ELSE initializeMultilevel(policy.currentNumNodes,
                                               policy.initialNumNodes)
       IN  policy' = [policy EXCEPT !.levels = levels,
                                    !.initial_levels = levels,
                                    !.pc = "initialized"]
    /\ UNCHANGED policy_others

\* a level of the uncoarsening: a hypernode is uncontracted and executeFlow
\* is called
ExecuteFlow ==
    /\ policy.pc = "initialized"
    /\ policy.currentNumNodes < policy.initialNumNodes
    /\ LET e == executeFlow(policy.levels, policy.currentNumNodes + 1)
       IN  policy' = [policy EXCEPT
                         !.currentNumNodes = @ + 1,
                         !.level = @ + 1,
                         !.levels = e.levels,
                         !.executed = IF e.execute
                                      THEN @ \cup {policy.level + 1}
                                      ELSE @]
    /\ UNCHANGED policy_others

\* the hypergraphs, coarsened to at least one hypernode, and the policies
InitPolicy ==
    /\ \E initial \in 1 .. MaxNumNodes,
          kind \in {"constant", "exponential", "multilevel"},
          beta \in 1 .. MaxBeta :
           \E current \in 1 .. initial :
               policy = [pc |-> "new",
                         kind |-> kind,
                         beta |-> beta,
                         initialNumNodes |-> initial,
                         coarsestNumNodes |-> current,
                         currentNumNodes |-> current,
                         level |-> 0,
                         levels |-> <<>>,
                         initial_levels |-> <<>>,
                         executed |-> {}]
    /\ pq = NewQueue(FALSE)
    /\ ret = [op |-> "init"]
    /\ hg = NoFlow
    /\ best_metrics = NoFlow
    /\ refiner = NoFlow
    /\ context = NoFlow
    /\ observed = NoFlow
    /\ solver = NoFlow
    /\ runs = NoFlow
    /\ fm = NoFlow
    /\ driver = NoFlow
    /\ evo = NoFlow
    /\ extractor = NoFlow

NextPolicy ==
    \/ Initialize
    \/ ExecuteFlow

SpecPolicy == InitPolicy /\ [][NextPolicy]_vars

\* the levels up to now
levelsSoFar == 1 .. policy.level

\* the level is the last: the hypergraph is fully uncontracted
isLastLevel(i) == policy.coarsestNumNodes + i = policy.initialNumNodes

isPowerOfTwo(i) == \E j \in 0 .. i : i = pow2(j)

\* every true of executeFlow took one threshold: the levels executed are
\* the thresholds that are gone
oncePerThreshold ==
    /\ Len(policy.levels) + Cardinality(policy.executed)
           = Len(policy.initial_levels)
    /\ {policy.coarsestNumNodes + i : i \in policy.executed}
           = elements(policy.initial_levels) \ elements(policy.levels)

thresholds == elements(policy.initial_levels)

\* the number of hypernodes on level i
nodeCount(i) == policy.coarsestNumNodes + i

takenAt(t) ==
    IF t = policy.coarsestNumNodes
    THEN t + 1
    ELSE IF t = policy.coarsestNumNodes + 1
            /\ policy.coarsestNumNodes \in thresholds
         THEN t + 1
         ELSE t

MaxPending == 3

\* initialize of the policy of a refiner that was initialized before: the
\* hypergraph was coarsened again, and the thresholds are inserted behind
\* those that are left (lines 71-73, 90-92, 111-113)
InitializeAgain ==
    /\ policy.pc = "initialized"
    /\ Len(policy.levels) <= MaxPending
    /\ \E current \in 1 .. policy.initialNumNodes :
           LET levels == IF policy.kind = "constant"
                         THEN initializeConstant(current,
                                                 policy.initialNumNodes,
                                                 policy.beta)
                         ELSE IF policy.kind = "exponential"
                         THEN initializeExponential(current,
                                                    policy.initialNumNodes)
                         ELSE initializeMultilevel(current,
                                                   policy.initialNumNodes)
           IN  policy' = [policy EXCEPT
                             !.levels = @ \o levels,
                             !.initial_levels = policy.levels \o levels,
                             !.coarsestNumNodes = current,
                             !.currentNumNodes = current,
                             !.level = 0,
                             !.executed = {}]
    /\ UNCHANGED policy_others

NextPolicyCalls ==
    \/ Initialize
    \/ InitializeAgain
    \/ ExecuteFlow

SpecPolicyCalls == InitPolicy /\ [][NextPolicyCalls]_vars

\* the thresholds fall from the front to the back
strictlyDecreasing(levels) ==
    \A i \in 1 .. Len(levels) - 1 : levels[i] > levels[i + 1]

\* C36: after any sequence of initialize and executeFlow calls, a second
\* initialize while thresholds of an earlier one are pending included, the
\* pending thresholds are strictly decreasing from front to back, so that
\* executeFlow compares the number of hypernodes with the smallest pending
\* threshold.
C36_PendingThresholdsDecrease ==
    /\ strictlyDecreasing(policy.levels)
    /\ policy.levels # <<>> =>
           \A t \in elements(policy.levels) :
               policy.levels[Len(policy.levels)] <= t

\* thresholds of the multilevel policy are left when the uncoarsening is
\* over
pendingAfterLastLevel ==
    /\ policy.currentNumNodes = policy.initialNumNodes
    /\ policy.pc = "initialized"
    /\ policy.level > 0
    /\ policy.levels # <<>>

\* the threshold at the back is above one in front of it
backAboveSmallest ==
    \E i \in 1 .. Len(policy.levels) :
        policy.levels[i] < policy.levels[Len(policy.levels)]

\* the uncoarsening is over: executeFlow was called once on every level up
\* to the fully uncontracted hypergraph
uncoarseningOver ==
    /\ policy.pc = "initialized"
    /\ policy.level > 0
    /\ policy.currentNumNodes = policy.initialNumNodes

\* C37: for each of the three policies, after initialize on an empty list
\* of thresholds below the initial number of hypernodes and one executeFlow
\* per number of hypernodes up to the initial one, the call on the last
\* level, that of the fully uncontracted hypergraph, returned true.
C37_ExecutesOnLastLevel ==
    uncoarseningOver => policy.level \in policy.executed

\* the uncoarsening is over under the multilevel policy: flows ran on the
\* last level and not on the level before it, and no threshold is left
C37_Witness ==
    /\ uncoarseningOver
    /\ policy.kind = "multilevel"
    /\ policy.level \in policy.executed
    /\ policy.level - 1 \in levelsSoFar \ policy.executed
    /\ policy.levels = <<>>

\* the same under the other policies, with levels skipped before the last
lastLevelOfConstant ==
    /\ uncoarseningOver
    /\ policy.kind = "constant"
    /\ policy.level \in policy.executed
    /\ policy.level - 1 \notin policy.executed

lastLevelOfExponential ==
    /\ uncoarseningOver
    /\ policy.kind = "exponential"
    /\ policy.level \in policy.executed
    /\ policy.level - 1 \notin policy.executed

(***************************************************************************)
(* The loop of ConstantFlowExecution::initialize (lines 61-74), one action *)
(* per iteration.  cur_execution_level and beta are size_t values, of      *)
(* SizeBits bits here, and wider than the numbers of hypernodes; the       *)
(* vector holds at most MaxLevels thresholds, and a push_back beyond that  *)
(* ends the call with std::bad_alloc.                                      *)
(***************************************************************************)
\* the width of size_t and the capacity of the memory
SizeBits == 5
MaxLevels == 12

\* the size_t values
SizeMax == pow2(SizeBits)

\* lines 65-66: the level after cur_execution_level
nextExecutionLevelUnchanged(cur_execution_level, beta) == cur_execution_level

nextExecutionLevel(cur_execution_level, beta) ==
    (cur_execution_level + beta) % SizeMax

\* lines 62-63
InitConstantInitialize ==
    /\ \E initial \in 1 .. MaxNumNodes, beta \in 0 .. SizeMax - 1 :
           \E current \in 1 .. initial :
               policy = [pc |-> "loop",
                         beta |-> beta,
                         initialNumNodes |-> initial,
                         currentNumNodes |-> current,
                         cur_execution_level |-> current + 1,
                         tmpFlowExecutionLevels |-> <<>>,
                         levels |-> <<>>]
    /\ pq = NewQueue(FALSE)
    /\ ret = [op |-> "init"]
    /\ hg = NoFlow
    /\ best_metrics = NoFlow
    /\ refiner = NoFlow
    /\ context = NoFlow
    /\ observed = NoFlow
    /\ solver = NoFlow
    /\ runs = NoFlow
    /\ fm = NoFlow
    /\ driver = NoFlow
    /\ evo = NoFlow
    /\ extractor = NoFlow

\* lines 64-68: an iteration of the loop
PushExecutionLevel ==
    /\ policy.pc = "loop"
    /\ policy.cur_execution_level < policy.initialNumNodes
    /\ policy' =
           IF Len(policy.tmpFlowExecutionLevels) >= MaxLevels
           THEN [policy EXCEPT !.pc = "bad_alloc"]
           ELSE [policy EXCEPT
                    !.tmpFlowExecutionLevels =
                        Append(@, policy.cur_execution_level),
                    !.cur_execution_level =
                        nextExecutionLevel(@, policy.beta)]
    /\ UNCHANGED policy_others

\* lines 69-73: the loop is left
FinishInitialize ==
    /\ policy.pc = "loop"
    /\ policy.cur_execution_level >= policy.initialNumNodes
    /\ policy' =
           IF Len(policy.tmpFlowExecutionLevels) >= MaxLevels
           THEN [policy EXCEPT !.pc = "bad_alloc"]
           ELSE [policy EXCEPT
                    !.pc = "done",
                    !.levels = reverse(Append(policy.tmpFlowExecutionLevels,
                                              policy.initialNumNodes))]
    /\ UNCHANGED policy_others

NextConstantInitialize ==
    \/ PushExecutionLevel
    \/ FinishInitialize

\* the loop is a sequential program: it takes its next step
SpecConstantInitialize ==
    /\ InitConstantInitialize
    /\ [][NextConstantInitialize]_vars
    /\ WF_vars(NextConstantInitialize)

\* beta is at least 1, or there is no level below the last
terminatingInput ==
    \/ policy.beta >= 1
    \/ policy.currentNumNodes + 1 >= policy.initialNumNodes

\* C38: ConstantFlowExecution::initialize terminates with a finite list of
\* thresholds if and only if beta is at least 1 or currentNumNodes + 1 is at
\* least initialNumNodes; it terminates for every beta of at least 1 on
\* every hypergraph.
C38_TerminatesIffBetaPositive ==
    /\ terminatingInput ~> policy.pc = "done"
    /\ [](policy.pc = "done" => terminatingInput)
    /\ [](policy.pc = "bad_alloc" => ~terminatingInput)

\* initialize has returned thresholds that are beta apart, beta above 1
C38_Witness ==
    /\ policy.pc = "done"
    /\ policy.beta > 1
    /\ Len(policy.levels) >= 3
    /\ policy.levels = initializeConstant(policy.currentNumNodes,
                                          policy.initialNumNodes,
                                          policy.beta)

\* with beta = 0 the loop has filled the memory
loopWithoutProgress ==
    /\ policy.pc = "bad_alloc"
    /\ policy.beta = 0

\* with beta = 0 and no level below the last initialize has returned
returnsWithoutLoop ==
    /\ policy.pc = "done"
    /\ policy.beta = 0
    /\ policy.levels = <<policy.initialNumNodes>>

\* beta is so large that cur_execution_level wrapped around: initialize has
\* returned thresholds below the number of hypernodes it was called with
wrappedAround ==
    /\ policy.pc = "done"
    /\ \E i \in 1 .. Len(policy.levels) :
           policy.levels[i] < policy.currentNumNodes

(***************************************************************************)
(* The two-way FM refiner (TwoWayFMRefiner) on the hypergraph of its       *)
(* tests: seven hypernodes of weight one and four hyperedges of weight     *)
(* one, of two, three and four pins.  The refiner keeps the gain of a      *)
(* hypernode's one possible move as its key in the priority queue, moves   *)
(* the hypernode of the highest key, updates the keys of its neighbours    *)
(* by the delta-gain rules and in the end rolls back to the best prefix    *)
(* of its moves.                                                           *)
(***************************************************************************)
FixtureNodes == 0 .. 6
FixtureEdges == 0 .. 3
pins(he) == <<{0, 2}, {0, 1, 3, 4}, {3, 4, 6}, {2, 5, 6}>>[he + 1]
incident(hn) == {he \in FixtureEdges : hn \in pins(he)}
edgeSize(he) == Cardinality(pins(he))
fixtureEdgeWeight(he) == 1
fixtureNodeWeight(hn) == 1

\* the bound of the simple stopping rule: the search stops when more moves
\* than this brought no improvement
MaxFruitlessMoves == 1
\* the bound on the moves the tests of the gain update make by hand
MaxHarnessMoves == 2
\* the weights a block may have
MaxPartWeights == {4, 5}

otherPart(b) == 1 - b

pinCountInPart(p, he, b) == Cardinality({hn \in pins(he) : p[hn] = b})

partWeight(p, b) ==
    sumOver({hn \in FixtureNodes : p[hn] = b},
            [hn \in FixtureNodes |-> fixtureNodeWeight(hn)])

\* metrics::hyperedgeCut
hyperedgeCut(p) ==
    sumOver({he \in FixtureEdges : \A b \in Blocks : pinCountInPart(p, he, b) > 0},
            [he \in FixtureEdges |-> fixtureEdgeWeight(he)])

\* metrics::imbalance is max_b W(b) / ceil(W(V) / 2) - 1; the divisor is the
\* same for every partition, so the model keeps the numerator
\* max_b W(b) - ceil(W(V) / 2)
metricsImbalance(p) ==
    LET total == partWeight(p, 0) + partWeight(p, 1)
        heaviest == IF partWeight(p, 0) >= partWeight(p, 1)
                    THEN partWeight(p, 0) ELSE partWeight(p, 1)
    IN  heaviest - ((total + 1) \div 2)

\* TwoWayFMRefiner::isBorderNode
isBorderNode(p, hn) ==
    \E he \in incident(hn) : pinCountInPart(p, he, otherPart(p[hn])) > 0

\* TwoWayFMRefiner::computeGain: a hyperedge in which hn is the last pin of
\* its block leaves the cut, one without a pin in the other block enters it
computeGain(p, hn) ==
    LET from == p[hn]
        to == otherPart(p[hn])
    IN  sumOver(incident(hn),
                [he \in FixtureEdges |->
                    (IF pinCountInPart(p, he, from) = 1
                     THEN fixtureEdgeWeight(he) ELSE 0)
                    - (IF pinCountInPart(p, he, to) = 0
                       THEN fixtureEdgeWeight(he) ELSE 0)])

\* TwoWayFMRefiner::moveIsFeasible
moveIsFeasible(part_weight, hn, to, max_part_weight) ==
    part_weight[to] + fixtureNodeWeight(hn) <= max_part_weight

\* the delta-gain rules without the special case of three pins: of the
\* transitions 2 -> 1 and 1 -> 2 only the first is applied
deltaGainOneTransition(p, he, pin, from, to) ==
    LET w == fixtureEdgeWeight(he)
        new_from == pinCountInPart(p, he, from)
        new_to == pinCountInPart(p, he, to)
        old_from == new_from + 1
        old_to == new_to - 1
    IN  IF edgeSize(he) = 2 THEN (IF new_from = 1 THEN 2 * w ELSE 0 - 2 * w)
        ELSE IF old_to = 0 THEN w
        ELSE IF new_from = 0 THEN 0 - w
        ELSE IF old_from = 2 THEN (IF p[pin] = from THEN w ELSE 0)
        ELSE IF old_to = 1 THEN (IF p[pin] = to THEN 0 - w ELSE 0)
        ELSE 0

\* the delta-gain rules: what the move of a hypernode from `from` to `to`
\* through he adds to the key of another pin of he; p is the partition
\* after the move.  A hyperedge of two pins changes the key by twice its
\* weight; the pin counts 0 -> 1 and 1 -> 0 change the keys of all pins;
\* 2 -> 1 changes the key of the pin left in `from`, 1 -> 2 the key of the
\* pin that was alone in `to`, and in a hyperedge of three pins both
\* happen at once.
deltaGain(p, he, pin, from, to) ==
    LET w == fixtureEdgeWeight(he)
        new_from == pinCountInPart(p, he, from)
        new_to == pinCountInPart(p, he, to)
        old_from == new_from + 1
        old_to == new_to - 1
    IN  IF edgeSize(he) = 2 THEN (IF new_from = 1 THEN 2 * w ELSE 0 - 2 * w)
        ELSE IF old_to = 0 THEN w
        ELSE IF new_from = 0 THEN 0 - w
        ELSE IF edgeSize(he) = 3 /\ old_from = 2 /\ old_to = 1
             THEN (IF p[pin] = from THEN w ELSE 0 - w)
        ELSE IF old_from = 2 THEN (IF p[pin] = from THEN w ELSE 0)
        ELSE IF old_to = 1 THEN (IF p[pin] = to THEN 0 - w ELSE 0)
        ELSE 0

\* an update of the keys that activates and removes nothing
updateKeysOnly(p, marked, in_pq, keys, moved_node, from, to) ==
    LET neighbours == (UNION {pins(he) : he \in incident(moved_node)}) \ marked
    IN  [in_pq |-> in_pq,
         keys |-> [u \in FixtureNodes |->
            IF u \in neighbours /\ u \in in_pq
            THEN keys[u] + sumOver({he \in incident(moved_node) : u \in pins(he)},
                                   [he \in FixtureEdges |->
                                       deltaGain(p, he, u, from, to)])
            ELSE keys[u]]]

\* TwoWayFMRefiner::updateNeighbours after moved_node went from `from` to
\* `to` and was marked: the keys of the unmarked pins in the queue are
\* updated, a neighbour that became a border hypernode is activated with a
\* freshly computed gain, one that is no border hypernode anymore is removed
updateNeighbours(p, marked, in_pq, keys, moved_node, from, to) ==
    LET neighbours == (UNION {pins(he) : he \in incident(moved_node)}) \ marked
        updated == [u \in FixtureNodes |->
            IF u \in neighbours /\ u \in in_pq
            THEN keys[u] + sumOver({he \in incident(moved_node) : u \in pins(he)},
                                   [he \in FixtureEdges |->
                                       deltaGain(p, he, u, from, to)])
            ELSE keys[u]]
        activated == {u \in neighbours \ in_pq : isBorderNode(p, u)}
        removed == {u \in neighbours \cap in_pq : ~isBorderNode(p, u)}
    IN  [in_pq |-> (in_pq \ removed) \cup activated,
         keys |-> [u \in FixtureNodes |->
                      IF u \in activated THEN computeGain(p, u) ELSE updated[u]]]

\* no move made yet
NoMove == [moved |-> 0 - 1, key_before |-> 0, in_pq_before |-> FALSE,
           queue_before |-> {}]

\* TwoWayFMRefiner::refine(refinement_nodes, ...) begins: the border
\* hypernodes among the refinement nodes are activated
Refine ==
    /\ fm.pc = "initialized"
    /\ \E u, v \in FixtureNodes :
        /\ u < v
        /\ LET active == {hn \in {u, v} : isBorderNode(fm.part, hn)}
           IN  fm' = [fm EXCEPT
                   !.pc = "refining",
                   !.in_pq = active,
                   !.keys = [hn \in FixtureNodes |->
                                IF hn \in active
                                THEN computeGain(fm.part, hn) ELSE 0]]
    /\ UNCHANGED fm_others

\* one round of the loop of refine: the hypernode of the highest key leaves
\* the queue; if its move is feasible it is moved and marked, the keys of
\* its neighbours are updated and the best prefix of the moves is kept
Move ==
    /\ fm.pc = "refining"
    /\ fm.in_pq # {}
    /\ fm.fruitless <= MaxFruitlessMoves
    /\ \E hn \in fm.in_pq :
        /\ \A u \in fm.in_pq : fm.keys[u] <= fm.keys[hn]
        /\ LET from == fm.part[hn]
               to == otherPart(fm.part[hn])
               popped == fm.in_pq \ {hn}
           IN  IF ~moveIsFeasible(fm.part_weight, hn, to, fm.max_part_weight)
               THEN fm' = [fm EXCEPT !.in_pq = popped, !.last = NoMove]
               ELSE
               LET p == [fm.part EXCEPT ![hn] = to]
                   weights == [fm.part_weight EXCEPT
                                  ![from] = @ - fixtureNodeWeight(hn),
                                  ![to] = @ + fixtureNodeWeight(hn)]
                   marked == fm.marked \cup {hn}
                   cut == fm.cut - fm.keys[hn]
                   imbalance_now == metricsImbalance(p)
                   queue == updateNeighbours(p, marked, popped, fm.keys,
                                             hn, from, to)
                   improved == \/ cut < fm.best_cut
                               \/ /\ cut = fm.best_cut
                                  /\ imbalance_now < fm.best_imbalance
               IN  fm' = [fm EXCEPT
                       !.part = p,
                       !.part_weight = weights,
                       !.marked = marked,
                       !.in_pq = queue.in_pq,
                       !.keys = queue.keys,
                       !.cut = cut,
                       !.moves = Append(@, hn),
                       !.best_cut = IF improved THEN cut ELSE @,
                       !.best_imbalance = IF improved THEN imbalance_now ELSE @,
                       !.min_cut_index = IF improved THEN Len(fm.moves) ELSE @,
                       !.fruitless = IF improved THEN 0 ELSE @ + 1,
                       !.last = [moved |-> hn, key_before |-> fm.keys[hn],
                                 in_pq_before |-> FALSE,
                                 queue_before |-> popped]]
    /\ UNCHANGED fm_others

\* a rollback that undoes nothing
rollbackNothing(p, part_weight, moves, last_index, min_cut_index) ==
    [part |-> p, part_weight |-> part_weight]

\* TwoWayFMRefiner::rollback(last_index, min_cut_index): the moves after the
\* best prefix are undone, the last one first
RECURSIVE rollbackMoves(_, _, _, _, _)
rollbackMoves(p, part_weight, moves, last_index, min_cut_index) ==
    IF last_index = min_cut_index
    THEN [part |-> p, part_weight |-> part_weight]
    ELSE LET hn == moves[last_index + 1]
             from == p[hn]
             to == otherPart(p[hn])
         IN  rollbackMoves([p EXCEPT ![hn] = to],
                           [part_weight EXCEPT
                               ![from] = @ - fixtureNodeWeight(hn),
                               ![to] = @ + fixtureNodeWeight(hn)],
                           moves, last_index - 1, min_cut_index)

\* refine ends: the queue is empty or the stopping rule fired
RollbackAndReturn ==
    /\ fm.pc = "refining"
    /\ fm.in_pq = {} \/ fm.fruitless > MaxFruitlessMoves
    /\ LET rolled == rollbackMoves(fm.part, fm.part_weight, fm.moves,
                                   Len(fm.moves) - 1, fm.min_cut_index)
       IN  fm' = [fm EXCEPT !.pc = "returned",
                            !.part = rolled.part,
                            !.part_weight = rolled.part_weight,
                            !.last = NoMove]
    /\ UNCHANGED fm_others

\* the tests of the gain update put hypernodes into the queue by hand, with
\* their computed gains
InsertByHand ==
    /\ fm.pc = "initialized"
    /\ \E u, v \in FixtureNodes :
        /\ u < v
        /\ LET chosen == (UNION {pins(he) : he \in incident(u) \cup incident(v)})
           IN  fm' = [fm EXCEPT
                   !.pc = "by hand",
                   !.in_pq = chosen,
                   !.keys = [hn \in FixtureNodes |->
                                IF hn \in chosen
                                THEN computeGain(fm.part, hn) ELSE 0]]
    /\ UNCHANGED fm_others

\* ... and then move a hypernode, mark it and call updateNeighbours, the
\* hypernode staying in the queue
MoveByHand ==
    /\ fm.pc = "by hand"
    /\ Len(fm.moves) < MaxHarnessMoves
    /\ \E hn \in fm.in_pq \ fm.marked :
        LET from == fm.part[hn]
            to == otherPart(fm.part[hn])
            p == [fm.part EXCEPT ![hn] = to]
            weights == [fm.part_weight EXCEPT
                           ![from] = @ - fixtureNodeWeight(hn),
                           ![to] = @ + fixtureNodeWeight(hn)]
            marked == fm.marked \cup {hn}
            queue == updateNeighbours(p, marked, fm.in_pq, fm.keys, hn, from, to)
        IN  fm' = [fm EXCEPT
                !.part = p,
                !.part_weight = weights,
                !.marked = marked,
                !.in_pq = queue.in_pq,
                !.keys = queue.keys,
                !.moves = Append(@, hn),
                !.last = [moved |-> hn, key_before |-> fm.keys[hn],
                          in_pq_before |-> TRUE,
                          queue_before |-> fm.in_pq]]
    /\ UNCHANGED fm_others

\* the state the library's other parts are in while the refiner, the driver,
\* the evolutionary partitioner or the extractor runs
LibraryIdle ==
    /\ pq = NewQueue(FALSE)
    /\ ret = [op |-> "init"]
    /\ hg = NoFlow
    /\ best_metrics = NoFlow
    /\ refiner = NoFlow
    /\ context = NoFlow
    /\ observed = NoFlow
    /\ solver = NoFlow
    /\ policy = NoFlow
    /\ runs = NoFlow

\* after initialize(): some partition into two blocks, nothing marked, the
\* queue empty
InitFM ==
    /\ \E p \in [FixtureNodes -> Blocks], max_part_weight \in MaxPartWeights :
        fm = [pc |-> "initialized",
              part |-> p,
              part_weight |-> [b \in Blocks |-> partWeight(p, b)],
              max_part_weight |-> max_part_weight,
              marked |-> {},
              in_pq |-> {},
              keys |-> [hn \in FixtureNodes |-> 0],
              moves |-> <<>>,
              cut |-> hyperedgeCut(p),
              best_cut |-> hyperedgeCut(p),
              best_imbalance |-> metricsImbalance(p),
              min_cut_index |-> 0 - 1,
              fruitless |-> 0,
              initial_part |-> p,
              last |-> NoMove]
    /\ LibraryIdle
    /\ driver = NoFlow
    /\ evo = NoFlow
    /\ extractor = NoFlow

NextFM ==
    \/ Refine
    \/ Move
    \/ RollbackAndReturn
    \/ InsertByHand
    \/ MoveByHand

SpecFM == InitFM /\ [][NextFM]_vars

\* C22: after a hypernode has moved and updateNeighbours has run, the key
\* of every unmarked hypernode in the queue is its gain computed from
\* scratch, whatever the sizes of the hyperedges and the changes of their
\* pin counts; the key of the moved, marked hypernode is the one it had.
C22_KeysAreRecomputedGains ==
    fm.last.moved # 0 - 1 =>
        /\ \A hn \in fm.in_pq \ fm.marked :
               fm.keys[hn] = computeGain(fm.part, hn)
        /\ fm.keys[fm.last.moved] = fm.last.key_before
        /\ fm.last.in_pq_before => fm.last.moved \in fm.in_pq

\* a move through a hyperedge of three pins whose pin counts went from two
\* to one and from one to two, both of its other pins being in the queue
C22_Witness ==
    /\ fm.last.moved # 0 - 1
    /\ fm.last.in_pq_before
    /\ \E he \in incident(fm.last.moved) :
        /\ edgeSize(he) = 3
        /\ pinCountInPart(fm.part, he, fm.part[fm.last.moved]) = 2
        /\ pins(he) \subseteq fm.in_pq
        /\ Cardinality(pins(he) \ fm.marked) = 2
    /\ \E he \in incident(fm.last.moved) : edgeSize(he) = 2 /\ pins(he) \subseteq fm.in_pq

\* the partition after the first n moves of the sequence
RECURSIVE afterPrefix(_, _, _)
afterPrefix(p, moves, n) ==
    IF n = 0
    THEN p
    ELSE LET before == afterPrefix(p, moves, n - 1)
         IN  [before EXCEPT ![moves[n]] = otherPart(before[moves[n]])]

\* C23: when refine returns, the partition is the one after the best prefix
\* of the moves made: its cut is not above the cut before the call, with the
\* same cut its imbalance is not above the one before, the block weights
\* are those of the partition, and if no prefix was an improvement every
\* hypernode is in the block it started in.
C23_ReturnsBestPrefix ==
    fm.pc = "returned" =>
        /\ fm.part = afterPrefix(fm.initial_part, fm.moves, fm.min_cut_index + 1)
        /\ hyperedgeCut(fm.part) <= hyperedgeCut(fm.initial_part)
        /\ hyperedgeCut(fm.part) = fm.best_cut
        /\ hyperedgeCut(fm.part) = hyperedgeCut(fm.initial_part)
               => metricsImbalance(fm.part) <= metricsImbalance(fm.initial_part)
        /\ \A b \in Blocks : fm.part_weight[b] = partWeight(fm.part, b)
        /\ fm.min_cut_index = 0 - 1 => fm.part = fm.initial_part

\* a call that made moves after its best prefix and undid them, and one
\* that found no improvement and undid all of its moves
rolledBackPartOfTheMoves ==
    /\ fm.pc = "returned"
    /\ fm.min_cut_index >= 0
    /\ Len(fm.moves) > fm.min_cut_index + 1
    /\ hyperedgeCut(fm.part) < hyperedgeCut(fm.initial_part)

C23_Witness ==
    /\ fm.pc = "returned"
    /\ fm.min_cut_index = 0 - 1
    /\ Len(fm.moves) > 0
    /\ fm.part = fm.initial_part

\* the unmarked pins of the hyperedges of the hypernode moved last
unmarkedNeighbours ==
    (UNION {pins(he) : he \in incident(fm.last.moved)}) \ fm.marked

\* the partition before the last move
partBeforeLastMove ==
    [fm.part EXCEPT ![fm.last.moved] = otherPart(fm.part[fm.last.moved])]

activatedPinOfTwoHyperedges ==
    /\ fm.last.moved # 0 - 1
    /\ ~fm.last.in_pq_before
    /\ \E u \in unmarkedNeighbours \ fm.last.queue_before :
        /\ u \in fm.in_pq
        /\ Cardinality({he \in incident(fm.last.moved) : u \in pins(he)}) > 1

(***************************************************************************)
(* The driver with a time limit (main of kahypar_timelimit.cc) and the     *)
(* part of processCommandLineInput it depends on: the command line is      *)
(* read into the context, v-cycles are refused in recursive bisection      *)
(* mode, the hypergraph is read and partitioned again and again until the  *)
(* time limit is reached, and the partition file is written.               *)
(***************************************************************************)
\* the largest time limit and the longest partition call, in seconds
MaxTimeLimit == 2
MaxDuration == 2
\* the hypernodes of the hypergraph in the file, and the blocks asked for
DriverNodes == 0 .. 2
DriverBlocks == 0 .. 1
\* the part of a hypernode that is in no block
kInvalidPartition == 0 - 1

ObjectiveStrings == {"cut", "km1", "connectivity"}
ModeStrings == {"direct", "recursive"}
Objectives == {"UNDEFINED", "cut", "km1"}

\* the notifier of --objective: context.partition.objective after it ran on
\* the string s
objectiveNotifier(previous, s) ==
    IF s = "cut" THEN "cut"
    ELSE IF s = "km1" THEN "km1"
    ELSE previous

\* kahypar::modeFromString on the two strings the option documents
modeFromString(mode) ==
    IF mode = "recursive" THEN "recursive_bisection" ELSE "direct_kway"

\* a hypergraph that is in no partition: as read from the file, and after
\* Hypergraph::reset
unpartitioned == [hn \in DriverNodes |-> kInvalidPartition]

\* Hypergraph::reset
reset(part) == unpartitioned

\* processCommandLineInput: the options are stored in the context
ProcessCommandLineInput ==
    /\ driver.pc = "main"
    /\ driver' = [driver EXCEPT
           !.pc = "sanityCheck",
           !.context.objective = objectiveNotifier(@, driver.argv.objective),
           !.context.mode = modeFromString(driver.argv.mode),
           !.context.global_search_iterations = driver.argv.vcycles,
           !.context.time_limit_seconds = driver.argv.time_limit]
    /\ UNCHANGED driver_others

\* sanityCheck(context) and the banner
SanityCheck ==
    /\ driver.pc = "sanityCheck"
    /\ driver' = [driver EXCEPT !.pc = "checkVCycles"]
    /\ UNCHANGED driver_others

\* a test of lines 53-54 that lets every context pass
vcyclesAllowed(c) == FALSE

\* the test of lines 53-54
vcyclesInRecursiveBisection(c) ==
    /\ c.global_search_iterations # 0
    /\ c.mode = "recursive_bisection"

\* lines 53-59: v-cycles in recursive bisection mode end the program with
\* exit(-1), otherwise the seed is set
CheckVCycles ==
    /\ driver.pc = "checkVCycles"
    /\ IF vcyclesInRecursiveBisection(driver.context)
       THEN driver' = [driver EXCEPT !.pc = "exited",
                                     !.cerr = TRUE,
                                     !.exit_status = (0 - 1) % 256]
       ELSE driver' = [driver EXCEPT !.pc = "createHypergraph"]
    /\ UNCHANGED driver_others

\* lines 61-65: the hypergraph is read from the file
CreateHypergraphFromFile ==
    /\ driver.pc = "createHypergraph"
    /\ driver' = [driver EXCEPT !.pc = "loop",
                                !.hypergraph_read = TRUE,
                                !.hypergraph = unpartitioned]
    /\ UNCHANGED driver_others

\* lines 69-78, one round of the loop: partitioner.partition gives every
\* hypernode a block, its duration is added to the timer, the result is
\* serialized and the hypergraph is reset
PartitionUntilTimeLimit ==
    /\ driver.pc = "loop"
    /\ driver.total_evolutionary < driver.context.time_limit_seconds
    /\ \E result \in [DriverNodes -> DriverBlocks], duration \in 1 .. MaxDuration :
        driver' = [driver EXCEPT
            !.partition_calls = @ + 1,
            !.total_evolutionary = @ + duration,
            !.serialized = @ \cup {result},
            !.hypergraph = reset(result)]
    /\ UNCHANGED driver_others

\* lines 79-100: the loop is left, the partition file is written and main
\* returns 0
WritePartitionFile ==
    /\ driver.pc = "loop"
    /\ ~(driver.total_evolutionary < driver.context.time_limit_seconds)
    /\ driver' = [driver EXCEPT !.pc = "returned",
                                !.partition_file = driver.hypergraph,
                                !.exit_status = 0]
    /\ UNCHANGED driver_others

\* main is entered with some command line; the context is as constructed
InitDriver ==
    /\ \E objective_string \in ObjectiveStrings, mode_string \in ModeStrings,
          vcycles \in 0 .. 1, time_limit \in 0 .. MaxTimeLimit,
          constructed \in Objectives :
        driver = [pc |-> "main",
                  argv |-> [objective |-> objective_string, mode |-> mode_string,
                            vcycles |-> vcycles, time_limit |-> time_limit],
                  context |-> [objective |-> constructed,
                               mode |-> "UNDEFINED",
                               global_search_iterations |-> 0,
                               time_limit_seconds |-> 0],
                  constructed_objective |-> constructed,
                  cerr |-> FALSE,
                  exit_status |-> 0,
                  hypergraph_read |-> FALSE,
                  hypergraph |-> <<>>,
                  partition_calls |-> 0,
                  total_evolutionary |-> 0,
                  serialized |-> {},
                  partition_file |-> <<>>]
    /\ LibraryIdle
    /\ fm = NoFlow
    /\ evo = NoFlow
    /\ extractor = NoFlow

NextDriver ==
    \/ ProcessCommandLineInput
    \/ SanityCheck
    \/ CheckVCycles
    \/ CreateHypergraphFromFile
    \/ PartitionUntilTimeLimit
    \/ WritePartitionFile

SpecDriver == InitDriver /\ [][NextDriver]_vars

\* C25: when the driver ends, the partition file gives every hypernode a
\* block in 0 .. k-1, and is the result of a partition call that completed.
C25_WritesCompletedPartition ==
    driver.pc = "returned" =>
        /\ \A hn \in DriverNodes : driver.partition_file[hn] \in DriverBlocks
        /\ driver.partition_file \in driver.serialized

\* what holds of the file instead: it is written from the hypergraph after
\* its reset, with no hypernode in a block, however many calls completed
writesResetHypergraph ==
    driver.pc = "returned" =>
        \A hn \in DriverNodes : driver.partition_file[hn] = kInvalidPartition

\* C26: with v-cycles asked for in recursive bisection mode the driver writes
\* an error and ends with a status other than zero, before the hypergraph is
\* read and before any partition call.
C26_VCyclesRefusedBeforeReading ==
    /\ (/\ driver.argv.vcycles > 0
        /\ driver.argv.mode = "recursive"
        /\ driver.pc \notin {"main", "sanityCheck", "checkVCycles"})
           => /\ driver.pc = "exited"
              /\ driver.cerr
              /\ driver.exit_status # 0
    /\ driver.pc = "exited" =>
           /\ ~driver.hypergraph_read
           /\ driver.partition_calls = 0
           /\ driver.partition_file = <<>>

\* the driver has refused v-cycles in recursive bisection mode
C26_Witness ==
    /\ driver.pc = "exited"
    /\ driver.argv.vcycles > 0
    /\ driver.argv.mode = "recursive"
    /\ driver.exit_status = 255

\* C27: an objective string other than "cut" and "km1" is refused as an
\* invalid configuration: once processCommandLineInput has run on it the
\* program has ended with a status other than zero, and it never goes on
\* with the objective of the context left at the value it had.
C27_UnknownObjectiveRefused ==
    (/\ driver.argv.objective \notin {"cut", "km1"}
     /\ driver.pc # "main")
        => /\ driver.pc = "exited"
           /\ driver.exit_status # 0

\* what holds instead: after the command line is read the objective is the
\* one of the string, or with another string the one the context had
objectiveKeptForUnknownString ==
    driver.pc # "main" =>
        driver.context.objective =
            IF driver.argv.objective \in {"cut", "km1"}
            THEN driver.argv.objective
            ELSE driver.constructed_objective

(***************************************************************************)
(* The evolutionary partitioner (EvoPartitioner): the initial population   *)
(* is generated, then mutations and combinations are made while the        *)
(* accumulated time does not exceed the time limit.  Time is counted in    *)
(* whole seconds; every individual and every operation takes at least one  *)
(* and adds its duration to the timer.                                     *)
(***************************************************************************)
\* the time limits, the shares of the time for the initial population (in
\* hundredths) and the configured sizes of the population
EvoTimeLimits == {3, 12, 60}
AmountsOfTime == {15, 100}
PopulationSizes == {2, 4}
\* the least and the largest dynamic size of the population
MinDynamicPopulationSize == 3
MaxDynamicPopulationSize == 50

\* std::round of the quotient of two positive integers
round(num, den) == (2 * num + den) \div (2 * den)

\* the integer part of the square root
RECURSIVE sqrtFrom(_, _)
sqrtFrom(n, r) == IF (r + 1) * (r + 1) > n THEN r ELSE sqrtFrom(n, r + 1)
sqrt(n) == sqrtFrom(n, 0)

\* the dynamic size without its limits
roundedPopulationSize(amount, time_limit_seconds, total_evolutionary) ==
    round(amount * time_limit_seconds, 100 * total_evolutionary)

\* lines 106-111: the dynamic size of the population, at least 3, at most 50
dynamicPopulationSize(amount, time_limit_seconds, total_evolutionary) ==
    LET dynamic_population_size ==
            round(amount * time_limit_seconds, 100 * total_evolutionary)
        minimal_size ==
            IF dynamic_population_size > MinDynamicPopulationSize
            THEN dynamic_population_size ELSE MinDynamicPopulationSize
    IN  IF minimal_size < MaxDynamicPopulationSize
        THEN minimal_size ELSE MaxDynamicPopulationSize

\* the condition of the loops of lines 56 and 120
withinTimeLimit(total_evolutionary, timelimit) == total_evolutionary <= timelimit

\* Timer::add(context, Timepoint::evolutionary, duration); of the durations
\* the timer lists, the model keeps the number, the first and the last
timerAdd(e, duration) ==
    [e EXCEPT !.total_evolutionary = @ + duration,
              !.evolutionary = [size |-> @.size + 1,
                                first |-> IF @.size = 0 THEN duration ELSE @.first,
                                last |-> duration]]

\* generateInitialPopulation, lines 95-116, with dynamic_population_size:
\* the first individual is generated and timed and the size of the
\* population is set from its duration
GenerateFirstIndividual ==
    /\ evo.pc = "generateInitialPopulation"
    /\ evo.dynamic_population_size
    /\ \E duration \in 1 .. MaxDuration :
        LET timed == timerAdd(evo, duration)
            population_size ==
                dynamicPopulationSize(evo.dynamic_population_amount_of_time,
                                      evo.time_limit_seconds,
                                      timed.total_evolutionary)
        IN  evo' = [timed EXCEPT
                !.pc = "fill",
                !.population = @ + 1,
                !.iteration = @ + 1,
                !.population_size = population_size,
                !.edge_frequency_amount = sqrt(population_size)]
    /\ UNCHANGED evo_others

\* generateInitialPopulation, lines 95 and 116, without it
KeepPopulationSize ==
    /\ evo.pc = "generateInitialPopulation"
    /\ ~evo.dynamic_population_size
    /\ evo' = [evo EXCEPT !.pc = "fill",
                          !.edge_frequency_amount = sqrt(evo.population_size)]
    /\ UNCHANGED evo_others

\* lines 119-131, one round: another individual is generated and timed
GenerateIndividual ==
    /\ evo.pc = "fill"
    /\ evo.population < evo.population_size
    /\ withinTimeLimit(evo.total_evolutionary, evo.timelimit)
    /\ \E duration \in 1 .. MaxDuration :
        evo' = [timerAdd(evo, duration) EXCEPT
                   !.population = @ + 1,
                   !.iteration = @ + 1,
                   !.started_at = evo.total_evolutionary]
    /\ UNCHANGED evo_others

\* the loop of lines 119-131 is left and generateInitialPopulation returns
InitialPopulationGenerated ==
    /\ evo.pc = "fill"
    /\ ~(/\ evo.population < evo.population_size
         /\ withinTimeLimit(evo.total_evolutionary, evo.timelimit))
    /\ evo' = [evo EXCEPT !.pc = "loop",
                          !.initial_population = evo.population,
                          !.initial_total = evo.total_evolutionary]
    /\ UNCHANGED evo_others

\* lines 56-84, one round with the decision for a mutation (line 141: a
\* random number below mutation_chance): the new individual is inserted,
\* the size of the full population staying as it is
PerformMutation ==
    /\ evo.pc = "loop"
    /\ withinTimeLimit(evo.total_evolutionary, evo.timelimit)
    /\ \E duration \in 1 .. MaxDuration :
        evo' = [timerAdd(evo, duration) EXCEPT
                   !.iteration = @ + 1,
                   !.operations = @ + 1,
                   !.last_decision = "mutation",
                   !.started_at = evo.total_evolutionary]
    /\ UNCHANGED evo_others

\* lines 56-84, one round with the decision for a combination
PerformCombine ==
    /\ evo.pc = "loop"
    /\ withinTimeLimit(evo.total_evolutionary, evo.timelimit)
    /\ \E duration \in 1 .. MaxDuration :
        evo' = [timerAdd(evo, duration) EXCEPT
                   !.iteration = @ + 1,
                   !.operations = @ + 1,
                   !.last_decision = "combine",
                   !.started_at = evo.total_evolutionary]
    /\ UNCHANGED evo_others

\* lines 85-87: the loop is left and the best individual becomes the
\* partition of the hypergraph
ReturnBest ==
    /\ evo.pc = "loop"
    /\ ~withinTimeLimit(evo.total_evolutionary, evo.timelimit)
    /\ evo' = [evo EXCEPT !.pc = "returned"]
    /\ UNCHANGED evo_others

\* evo_partition is entered with a cleared timer and an empty population
InitEvo ==
    /\ \E time_limit_seconds \in EvoTimeLimits, dynamic \in BOOLEAN,
          amount \in AmountsOfTime, population_size \in PopulationSizes :
        evo = [pc |-> "generateInitialPopulation",
               timelimit |-> time_limit_seconds,
               time_limit_seconds |-> time_limit_seconds,
               dynamic_population_size |-> dynamic,
               dynamic_population_amount_of_time |-> amount,
               configured_population_size |-> population_size,
               population_size |-> population_size,
               edge_frequency_amount |-> 0,
               iteration |-> 0,
               population |-> 0,
               total_evolutionary |-> 0,
               evolutionary |-> [size |-> 0, first |-> 0, last |-> 0],
               operations |-> 0,
               last_decision |-> "none",
               started_at |-> 0,
               initial_population |-> 0,
               initial_total |-> 0]
    /\ LibraryIdle
    /\ fm = NoFlow
    /\ driver = NoFlow
    /\ extractor = NoFlow

NextEvo ==
    \/ GenerateFirstIndividual
    \/ KeepPopulationSize
    \/ GenerateIndividual
    \/ InitialPopulationGenerated
    \/ PerformMutation
    \/ PerformCombine
    \/ ReturnBest

SpecEvo == InitEvo /\ [][NextEvo]_vars

\* the duration of the last timed individual or operation
lastDuration == evo.evolutionary.last

\* C28: evo_partition respects the time limit: no mutation or combination
\* is started once the accumulated time has reached the limit; at the
\* return the total time is above the limit, and without the duration of
\* the last operation it is below the limit.
C28_RespectsTimeLimit ==
    /\ evo.operations > 0 => evo.started_at < evo.timelimit
    /\ evo.pc = "returned" =>
           /\ evo.total_evolutionary > evo.timelimit
           /\ evo.total_evolutionary - lastDuration < evo.timelimit

\* what holds instead: an operation is started with the accumulated time at
\* the limit or below it, and without the last duration the total is at
\* most the limit
timeLimitReachedBeforeLastOperation ==
    /\ evo.operations > 0 => evo.started_at <= evo.timelimit
    /\ evo.pc = "returned" =>
           /\ evo.total_evolutionary > evo.timelimit
           /\ evo.total_evolutionary - lastDuration <= evo.timelimit

\* the dynamic size of the population as the quotient gives it, from the
\* duration of the first individual
roundedFromFirst ==
    round(evo.dynamic_population_amount_of_time * evo.time_limit_seconds,
          100 * evo.evolutionary.first)

initialPopulationDone == evo.pc \notin {"generateInitialPopulation", "fill"}

populationAtLargestSize ==
    /\ initialPopulationDone
    /\ evo.dynamic_population_size
    /\ roundedFromFirst > MaxDynamicPopulationSize
    /\ evo.initial_population = MaxDynamicPopulationSize

populationCutShortByTimeLimit ==
    /\ initialPopulationDone
    /\ evo.initial_population < evo.population_size

(***************************************************************************)
(* The flow hypergraph extractor (FlowHypergraphExtractor::run) on the     *)
(* hypergraph of the flow refiner, its hypernodes in up to three blocks:   *)
(* from the cut hyperedges of the blocks b0 = 0 and b1 = 1 a breadth-first *)
(* search collects hypernodes of b0 up to the weight alpha * W(b0), a      *)
(* second one hypernodes of b1 up to alpha * W(b1); what is left of a      *)
(* block is the weight of its terminal.  The model keeps the hypernodes    *)
(* and the weights of the flow hypergraph, not its hyperedges and not the  *)
(* distances from the cut.                                                 *)
(***************************************************************************)
ExtractorBlocks == 0 .. 2
\* snapshot_scaling (alpha) in halves: 0.5, 1 and 1.5
SnapshotScalings == {1, 2, 3}
HalvesInOne == 2
\* the local ids' entries for the two terminals
globalSourceID == 0 - 1
globalTargetID == 0 - 2

\* Hypergraph::partWeight, hasPinsInPart, pinCountInPart, hasPinsInOtherBlocks
weightOfPart(p, b) ==
    sumOver({hn \in HNs : p[hn] = b}, [hn \in HNs |-> nodeWeight(hn)])
hasPinsInPart(p, he, b) == \E v \in pinsOf(he) : p[v] = b
countPinsInPart(p, he, b) == Cardinality({v \in pinsOf(he) : p[v] = b})
hasPinsInOtherBlocks(p, he) == \E v \in pinsOf(he) : p[v] \notin {block0, block1}

\* the orders std::shuffle can leave the cut hyperedges in
permutationsOf(S) ==
    {f \in [1 .. Cardinality(S) -> S] :
        \A i, j \in 1 .. Cardinality(S) : i # j => f[i] # f[j]}

\* canHyperedgeBeDropped
canHyperedgeBeDropped(x, he) ==
    x.removeHyperedgesWithPinsOutsideRegion /\ hasPinsInOtherBlocks(x.part, he)

\* a size constraint that lets every hypernode in
fitsAlways(x, v, side) == TRUE

\* hg.nodeWeight(v) + w <= sizeConstraint, the constraint being
\* alpha * hg.partWeight(myBlock)
fits(x, v, side) ==
    HalvesInOne * (nodeWeight(v) + x.w[side])
        <= x.alpha * weightOfPart(x.part, side)

\* visitNode
visitNode(x, v, side) ==
    [x EXCEPT !.nodes = Append(@, v),
              !.node_weight = Append(@, nodeWeight(v)),
              !.queue = Append(@, v),
              !.visitedNode = @ \cup {v},
              !.w[side] = @ + nodeWeight(v)]

\* the loops over pins of lines 292-296 and 313-318: a pin of the block that
\* is not visited and fits is visited
RECURSIVE visitPins(_, _, _)
visitPins(x, pin_list, side) ==
    IF pin_list = <<>>
    THEN x
    ELSE LET v == Head(pin_list)
         IN  visitPins(IF v \notin x.visitedNode /\ x.part[v] = side
                          /\ fits(x, v, side)
                       THEN visitNode(x, v, side)
                       ELSE x,
                       Tail(pin_list), side)

\* the pins of the cut hyperedges, in the order of the two loops of line 291
RECURSIVE pinsOfAll(_)
pinsOfAll(hes) ==
    IF hes = <<>> THEN <<>>
    ELSE inOrder(pinsOf(Head(hes))) \o pinsOfAll(Tail(hes))

\* lines 304-329: the hyperedges of u that lie in the block are added, their
\* pins visited
RECURSIVE scanIncidentEdges(_, _, _)
scanIncidentEdges(x, hes, side) ==
    IF hes = <<>>
    THEN x
    ELSE LET he == Head(hes)
         IN  scanIncidentEdges(
                 IF /\ ~hasPinsInPart(x.part, he, 1 - side)
                    /\ countPinsInPart(x.part, he, side) > 1
                    /\ ~canHyperedgeBeDropped(x, he)
                    /\ he \notin x.visitedHyperedge
                 THEN visitPins([x EXCEPT !.visitedHyperedge = @ \cup {he}],
                                inOrder(pinsOf(he)), side)
                 ELSE x,
                 Tail(hes), side)

\* lines 215-251: the cut hyperedges that are kept count for cutAtStake, and
\* for baseCut when they join both terminals
RECURSIVE collectCutHyperedges(_, _)
collectCutHyperedges(x, hes) ==
    IF hes = <<>>
    THEN x
    ELSE LET he == Head(hes)
             unvisited == pinsOf(he) \ x.visitedNode
             connectToSource == \E v \in unvisited : x.part[v] = block0
             connectToTarget == \E v \in unvisited : x.part[v] = block1
         IN  collectCutHyperedges(
                 IF canHyperedgeBeDropped(x, he)
                 THEN x
                 ELSE [x EXCEPT
                          !.cutAtStake = @ + edgeWeight(he),
                          !.visitedHyperedge = @ \cup {he},
                          !.baseCut = IF connectToSource /\ connectToTarget
                                      THEN @ + edgeWeight(he) ELSE @],
                 Tail(hes))

\* lines 190-205, up to the loop of the first search: the source gets the
\* first local id and the hypernodes of b0 in the cut hyperedges are visited
CollectB0 ==
    /\ extractor.pc = "run"
    /\ extractor' =
           visitPins([extractor EXCEPT !.pc = "BreadthFirstSearch",
                                       !.side = block0,
                                       !.nodes = <<globalSourceID>>,
                                       !.node_weight = <<0>>],
                     pinsOfAll(extractor.cut_hes), block0)
    /\ UNCHANGED extractor_others

\* lines 298-330, one round: a hypernode leaves the queue
PopHypernode ==
    /\ extractor.pc = "BreadthFirstSearch"
    /\ extractor.queue # <<>>
    /\ LET u == Head(extractor.queue)
       IN  extractor' =
               scanIncidentEdges([extractor EXCEPT !.queue = Tail(@)],
                                 inOrder({he \in HEs : u \in pinsOf(he)}),
                                 extractor.side)
    /\ UNCHANGED extractor_others

\* lines 207-212: the first search is over, the target gets its local id and
\* the hypernodes of b1 in the cut hyperedges are visited
CollectB1 ==
    /\ extractor.pc = "BreadthFirstSearch"
    /\ extractor.side = block0
    /\ extractor.queue = <<>>
    /\ extractor' =
           visitPins([extractor EXCEPT !.side = block1,
                                       !.nodes = Append(@, globalTargetID),
                                       !.node_weight = Append(@, 0)],
                     pinsOfAll(extractor.cut_hes), block1)
    /\ UNCHANGED extractor_others

\* the local id of a terminal
RECURSIVE localID(_, _, _)
localID(node_list, terminal, i) ==
    IF node_list[i] = terminal THEN i ELSE localID(node_list, terminal, i + 1)

\* lines 214-264: the second search is over; the cut hyperedges are
\* collected and the terminals get the weights left in their blocks, or
\* run throws because a whole block was extracted
FinishRun ==
    /\ extractor.pc = "BreadthFirstSearch"
    /\ extractor.side = block1
    /\ extractor.queue = <<>>
    /\ LET x == collectCutHyperedges(extractor, extractor.cut_hes)
           ws == weightOfPart(x.part, block0) - x.w[block0]
           wt == weightOfPart(x.part, block1) - x.w[block1]
       IN  IF ws = 0 \/ wt = 0
           THEN extractor' = [x EXCEPT !.pc = "thrown"]
           ELSE extractor' = [x EXCEPT
                    !.pc = "returned",
                    !.node_weight[localID(x.nodes, globalSourceID, 1)] = ws,
                    !.node_weight[localID(x.nodes, globalTargetID, 1)] = wt]
    /\ UNCHANGED extractor_others

\* run is called on a partition with a cut hyperedge between b0 and b1, the
\* cut hyperedges shuffled
InitExtractor ==
    /\ \E p \in [HNs -> ExtractorBlocks], alpha \in SnapshotScalings,
          metric \in {"cut", "km1"} :
        LET cut == {he \in HEs : /\ hasPinsInPart(p, he, block0)
                                 /\ hasPinsInPart(p, he, block1)}
        IN  /\ cut # {}
            /\ \E shuffled \in permutationsOf(cut) :
                extractor = [pc |-> "run",
                             part |-> p,
                             alpha |-> alpha,
                             removeHyperedgesWithPinsOutsideRegion |-> metric = "cut",
                             cut_hes |-> shuffled,
                             side |-> block0,
                             w |-> [b \in Blocks |-> 0],
                             nodes |-> <<>>,
                             node_weight |-> <<>>,
                             queue |-> <<>>,
                             visitedNode |-> {},
                             visitedHyperedge |-> {},
                             baseCut |-> 0,
                             cutAtStake |-> 0]
    /\ LibraryIdle
    /\ fm = NoFlow
    /\ driver = NoFlow
    /\ evo = NoFlow

NextExtractor ==
    \/ CollectB0
    \/ PopHypernode
    \/ CollectB1
    \/ FinishRun

SpecExtractor == InitExtractor /\ [][NextExtractor]_vars

\* the weight of a terminal in the flow hypergraph
terminalWeight(terminal) ==
    extractor.node_weight[localID(extractor.nodes, terminal, 1)]

\* C30: in every step of the two searches the weight extracted from b0 is
\* at most alpha * W(b0) and the weight extracted from b1 at most
\* alpha * W(b1), and the source and the target get exactly the weights
\* W(b0) - w0 and W(b1) - w1 (a run that would give a terminal the weight
\* zero throws instead).
C30_ExtractedWeightsBounded ==
    /\ \A b \in Blocks :
        /\ HalvesInOne * extractor.w[b] <= extractor.alpha * weightOfPart(extractor.part, b)
        /\ extractor.w[b] =
               sumOver({hn \in extractor.visitedNode : extractor.part[hn] = b},
                       [hn \in HNs |-> nodeWeight(hn)])
    /\ extractor.pc = "returned" =>
        /\ terminalWeight(globalSourceID)
               = weightOfPart(extractor.part, block0) - extractor.w[block0]
        /\ terminalWeight(globalTargetID)
               = weightOfPart(extractor.part, block1) - extractor.w[block1]
        /\ terminalWeight(globalSourceID) > 0
        /\ terminalWeight(globalTargetID) > 0
    /\ extractor.pc = "thrown" =>
        \E b \in Blocks : extractor.w[b] = weightOfPart(extractor.part, b)

\* a run that returned after a hypernode did not fit into its search and
\* was left to the terminal, both searches having extracted something
C30_Witness ==
    /\ extractor.pc = "returned"
    /\ extractor.w[block0] > 0
    /\ extractor.w[block1] > 0
    /\ \E hn \in HNs :
        /\ extractor.part[hn] = block0
        /\ hn \notin extractor.visitedNode
        /\ \E he \in extractor.visitedHyperedge : hn \in pinsOf(he)
        /\ HalvesInOne * (nodeWeight(hn) + extractor.w[block0])
               > extractor.alpha * weightOfPart(extractor.part, block0)

\* a run that threw because a whole block was extracted
entireBlockExtracted ==
    /\ extractor.pc = "thrown"
    /\ extractor.w[block0] = weightOfPart(extractor.part, block0)

=============================================================================
